---- MODULE Spec2Model ----
(***************************************************************************)
(* Doctor-appointment booking backend: the scheduling engine.              *)
(*                                                                         *)
(* State: the three tables the engine reads and writes (availabilities,    *)
(* time slots, appointments), the wall clock, the reply of the last        *)
(* request, and the position of each in-flight booking request.            *)
(*                                                                         *)
(* Times of day ("HH:MM") are minutes since midnight, dates are day        *)
(* numbers, instants are minutes since day 0 00:00.                        *)
(***************************************************************************)
EXTENDS Integers, Sequences, FiniteSets, TLC

VARIABLES avails, slots, appts, now, last, req

vars == <<avails, slots, appts, now, last, req>>
db == <<avails, slots, appts>>

(***************************************************************************)
(* Bounds of the model.                                                    *)
(***************************************************************************)
\* appointment rows the table may hold (sequential and interleaved specifications)
MaxAppts == 2
\* reasons appended to one appointment's notes
MaxNotes == 1
\* appointment rows the table may hold in the shrink specification
MaxShrinkAppts == 3
\* appointment rows the table may hold in the cancellation specification
MaxCancelAppts == 3
\* largest slot capacity of the booking-window specification
MaxCap == 2
\* appointment rows the table may hold in the reschedule-engine specification
MaxEngineAppts == 2
\* appointment rows and largest slot capacity of the reporting-time specification
MaxReportAppts == 3
MaxReportCap == 4
\* time shifts of 30 minutes a day may take
MaxShifts == 1
MaxEntryAppts == 1
MaxStatusAppts == 2
\* appointment rows the table may hold in the specification of a cut inside a slot
MaxCutAppts == 2
\* appointment rows the table may hold in the admission specification
MaxAdmitAppts == 2

(***************************************************************************)
(* Value domains.                                                          *)
(***************************************************************************)
MinutesPerDay == 24 * 60
T0900 == 9 * 60
T0915 == 9 * 60 + 15
T0930 == 9 * 60 + 30
T1000 == 10 * 60
T0800 == 8 * 60
T1030 == 10 * 60 + 30
T1700 == 17 * 60
T1730 == 17 * 60 + 30

AvailIds == 1 .. 3
SlotIds == 1 .. 4
Doctors == {"d1", "d2"}
Patients == {"p1", "p2", "p3", "p4"}
NoId == 0

AVAILABLE == "available"
BOOKED == "booked"
BLOCKED == "blocked"
SCHEDULED == "scheduled"
CANCELLED == "cancelled"
COMPLETED == "completed"
PATIENT == "patient"
DOCTOR == "doctor"

NoAvail == [exists |-> FALSE, doctor |-> "d1", date |-> 0, session |-> "morning",
            cstart |-> 0, cend |-> 0, bstart |-> 0, bend |-> 0, deleted |-> FALSE]
NoSlot == [exists |-> FALSE, avail |-> 1, doctor |-> "d1", start |-> 0, end |-> 0,
           max |-> 1, status |-> AVAILABLE, deleted |-> FALSE]

(***************************************************************************)
(* Replies.  A reply is the exception class the caller receives and the    *)
(* check that raised it.                                                   *)
(***************************************************************************)
OK == "ok"

NotFoundCodes == {"SlotNotFound", "PatientNotFound", "AppointmentNotFound",
                  "AvailabilityNotFound", "DoctorNotFound", "NoAppointmentsToMove",
                  "NoSlotsToShift"}

ValidationCodes == {"WrongDoctor", "ShrinkParams", "BookingStartInPast",
                    "ConsultationDateInPast", "BookingEndNotBeforeConsulting",
                    "BookingStartNotBeforeEnd", "ShiftMinutesRequired",
                    "SlotIdsRequired", "ShiftTimesRequired", "ShrinkTimesRequired",
                    "InvalidSchedulingType"}

\* an exception that is none of the HTTP exceptions reaches the caller as a 500
InternalCodes == {"Persistence"}

ErrKind(code) ==
    CASE code = OK -> "none"
      [] code \in NotFoundCodes -> "NotFound"
      [] code \in ValidationCodes -> "Validation"
      [] code \in InternalCodes -> "Internal"
      [] OTHER -> "Conflict"

\* const x = value; ...: the body sees the value it was given
With(value, Body(_)) == Body(value)

(***************************************************************************)
(* Time utilities.                                                         *)
(***************************************************************************)
combineDateAndTime(date, t) == date * MinutesPerDay + t

\* new Date(2000,0,1,h,m) + minutes, then getHours():getMinutes(): the date is dropped
shiftTimeStr(t, minutes) == (t + minutes) % MinutesPerDay

(***************************************************************************)
(* Table queries.                                                          *)
(***************************************************************************)
ApptIds(ap) == 1 .. Len(ap)

ScheduledIn(ap, s) == {i \in ApptIds(ap) : ap[i].slot = s /\ ap[i].status = SCHEDULED}

CountScheduled(ap, s) == Cardinality(ScheduledIn(ap, s))

\* UNIQUE ("patient_id", "time_slot_id") on appointments: a row other than `self`
\* already pairs the patient with the slot, whatever its status
UQ_appointments_patient_timeslot(ap, self, p, s) ==
    \E i \in ApptIds(ap) : i # self /\ ap[i].patient = p /\ ap[i].slot = s

(***************************************************************************)
(* Slot status engine: the copy in the appointment service.                *)
(***************************************************************************)
\* a status engine that calls a slot BOOKED only once it is over its capacity
updateSlotStatusAfterBooking_overCapacity(sl, ap, s) ==
    IF ~sl[s].exists THEN sl
    ELSE LET activeAppointments == CountScheduled(ap, s)
             newStatus == IF activeAppointments > sl[s].max THEN BOOKED
                          ELSE IF sl[s].status = BLOCKED THEN BLOCKED
                          ELSE AVAILABLE
         IN  IF sl[s].status # newStatus THEN [sl EXCEPT ![s].status = newStatus] ELSE sl

updateSlotStatusAfterBooking(sl, ap, s) ==
    IF ~sl[s].exists THEN sl
    ELSE LET activeAppointments == CountScheduled(ap, s)
             newStatus == IF activeAppointments >= sl[s].max THEN BOOKED
                          ELSE IF sl[s].status = BLOCKED THEN BLOCKED
                          ELSE AVAILABLE
         IN  IF sl[s].status # newStatus THEN [sl EXCEPT ![s].status = newStatus] ELSE sl

(***************************************************************************)
(* Booking admission.                                                      *)
(***************************************************************************)
NoTime == -1

\* a window whose end instant is already closed
isAfterWindow_endExclusive(currentTime, bookingEndTime) == currentTime >= bookingEndTime

isAfterWindow(currentTime, bookingEndTime) == currentTime > bookingEndTime

isBeforeWindow(currentTime, bookingStartTime) == currentTime < bookingStartTime

validateBookingWindow(availability, timeslot, currentTime) ==
    LET appointmentDateTime == combineDateAndTime(availability.date, timeslot.start) IN
    IF currentTime >= appointmentDateTime THEN "PastSlot"
    ELSE IF availability.bstart = NoTime \/ availability.bend = NoTime THEN "WindowNotConfigured"
    ELSE IF availability.bstart >= availability.bend THEN "WindowStartNotBeforeEnd"
    ELSE IF availability.bend >= appointmentDateTime THEN "WindowEndNotBeforeSlot"
    ELSE IF isBeforeWindow(currentTime, availability.bstart) THEN "WindowNotOpen"
    ELSE IF isAfterWindow(currentTime, availability.bend) THEN "WindowClosed"
    ELSE OK

\* a reporting time that counts the new patient too
calculateReportingTime_oneBased(timeslot, patientIndex) ==
    LET slotDuration == timeslot.end - timeslot.start
        timePerPatient == slotDuration \div timeslot.max
    IN  (timeslot.start + (patientIndex + 1) * timePerPatient) % MinutesPerDay

calculateReportingTime(timeslot, patientIndex) ==
    LET slotDuration == timeslot.end - timeslot.start
        timePerPatient == slotDuration \div timeslot.max
    IN  (timeslot.start + patientIndex * timePerPatient) % MinutesPerDay

existingAppointmentInSession(av, sl, ap, p, s) ==
    \E i \in ApptIds(ap) :
        /\ ap[i].patient = p
        /\ ap[i].status = SCHEDULED
        /\ sl[ap[i].slot].doctor = sl[s].doctor
        /\ av[sl[ap[i].slot].avail].date = av[sl[s].avail].date
        /\ av[sl[ap[i].slot].avail].session = av[sl[s].avail].session

\* an admission that verifies the requested doctor before the booking window
slotAdmission_doctorBeforeWindow(av, sl, t, p, d, s) ==
    IF ~(s \in SlotIds /\ sl[s].exists /\ ~sl[s].deleted) THEN "SlotNotFound"
    ELSE IF sl[s].status # AVAILABLE THEN "SlotNotAvailable"
    ELSE IF sl[s].doctor # d THEN "WrongDoctor"
    ELSE IF validateBookingWindow(av[sl[s].avail], sl[s], t) # OK
         THEN validateBookingWindow(av[sl[s].avail], sl[s], t)
    ELSE IF p \notin Patients THEN "PatientNotFound"
    ELSE OK

\* the checks made on the slot as it was read: found, AVAILABLE, window, doctor, patient
slotAdmission(av, sl, t, p, d, s) ==
    IF ~(s \in SlotIds /\ sl[s].exists /\ ~sl[s].deleted) THEN "SlotNotFound"
    ELSE IF sl[s].status # AVAILABLE THEN "SlotNotAvailable"
    ELSE IF validateBookingWindow(av[sl[s].avail], sl[s], t) # OK
         THEN validateBookingWindow(av[sl[s].avail], sl[s], t)
    ELSE IF sl[s].doctor # d THEN "WrongDoctor"
    ELSE IF p \notin Patients THEN "PatientNotFound"
    ELSE OK

\* the admission checks up to the capacity check, in the order of the code
admissionCheck(av, sl, ap, t, p, d, s) ==
    IF slotAdmission(av, sl, t, p, d, s) # OK THEN slotAdmission(av, sl, t, p, d, s)
    ELSE IF existingAppointmentInSession(av, sl, ap, p, s) THEN "DuplicateSession"
    ELSE IF CountScheduled(ap, s) >= sl[s].max THEN "SlotFull"
    ELSE OK

newAppointment(av, sl, ap, t, p, d, s) ==
    With(admissionCheck(av, sl, ap, t, p, d, s), LAMBDA chk :
      IF chk # OK THEN [err |-> chk, slots |-> sl, appts |-> ap]
      ELSE IF UQ_appointments_patient_timeslot(ap, NoId, p, s)
           THEN [err |-> "Persistence", slots |-> sl, appts |-> ap]
      ELSE With(Append(ap, [patient |-> p, doctor |-> sl[s].doctor, slot |-> s,
                            status |-> SCHEDULED,
                            scheduled_on |->
                                combineDateAndTime(av[sl[s].avail].date,
                                    calculateReportingTime(sl[s], CountScheduled(ap, s))),
                            notes |-> 0]),
                LAMBDA saved :
                  [err |-> OK, slots |-> updateSlotStatusAfterBooking(sl, saved, s),
                   appts |-> saved]))

\* the awaits of a booking past the admission checks at which the persistence layer may
\* throw: the save of the appointment, the status update after it
FaultPoints == {"none", "save", "status"}

\* newAppointment with a persistence failure at the given point: a failed save is caught
\* by the handler's catch and wrapped; a failure inside updateSlotStatusAfterBooking is
\* caught there and dropped, the slot keeps its status and the booking replies success
newAppointmentWithFault(av, sl, ap, t, p, d, s, fault) ==
    With(admissionCheck(av, sl, ap, t, p, d, s), LAMBDA chk :
      IF chk # OK THEN [err |-> chk, slots |-> sl, appts |-> ap]
      ELSE IF fault = "save" \/ UQ_appointments_patient_timeslot(ap, NoId, p, s)
           THEN [err |-> "Persistence", slots |-> sl, appts |-> ap]
      ELSE With(Append(ap, [patient |-> p, doctor |-> sl[s].doctor, slot |-> s,
                            status |-> SCHEDULED,
                            scheduled_on |->
                                combineDateAndTime(av[sl[s].avail].date,
                                    calculateReportingTime(sl[s], CountScheduled(ap, s))),
                            notes |-> 0]),
                LAMBDA saved :
                  [err |-> OK,
                   slots |-> IF fault = "status" THEN sl
                             ELSE updateSlotStatusAfterBooking(sl, saved, s),
                   appts |-> saved]))

(***************************************************************************)
(* Cancellation.                                                           *)
(***************************************************************************)
\* a cancellation that checks the caller only when the caller is a patient
cancelAppointment_patientCheckOnly(av, sl, ap, t, appointmentId, userId, role) ==
    IF appointmentId \notin ApptIds(ap)
    THEN [err |-> "AppointmentNotFound", slots |-> sl, appts |-> ap]
    ELSE With(ap[appointmentId], LAMBDA appointment :
      IF role = PATIENT /\ appointment.patient # userId
      THEN [err |-> "NotYourAppointment", slots |-> sl, appts |-> ap]
      ELSE IF appointment.status \in {CANCELLED, COMPLETED}
      THEN [err |-> "AlreadyCancelledOrCompleted", slots |-> sl, appts |-> ap]
      ELSE IF t >= combineDateAndTime(av[sl[appointment.slot].avail].date,
                                      sl[appointment.slot].start)
      THEN [err |-> "TooLateToCancel", slots |-> sl, appts |-> ap]
      ELSE With([ap EXCEPT ![appointmentId].status = CANCELLED], LAMBDA saved :
             [err |-> OK,
              slots |-> updateSlotStatusAfterBooking(sl, saved, appointment.slot),
              appts |-> saved]))

\* a cancellation that is refused only after the consultation's start instant
cancelAppointment_afterStartOnly(av, sl, ap, t, appointmentId, userId, role) ==
    IF appointmentId \notin ApptIds(ap)
    THEN [err |-> "AppointmentNotFound", slots |-> sl, appts |-> ap]
    ELSE With(ap[appointmentId], LAMBDA appointment :
      IF role = PATIENT /\ appointment.patient # userId
      THEN [err |-> "NotYourAppointment", slots |-> sl, appts |-> ap]
      ELSE IF role = DOCTOR /\ appointment.doctor # userId
      THEN [err |-> "NotYourAppointment", slots |-> sl, appts |-> ap]
      ELSE IF appointment.status \in {CANCELLED, COMPLETED}
      THEN [err |-> "AlreadyCancelledOrCompleted", slots |-> sl, appts |-> ap]
      ELSE IF t > combineDateAndTime(av[sl[appointment.slot].avail].date,
                                     sl[appointment.slot].start)
      THEN [err |-> "TooLateToCancel", slots |-> sl, appts |-> ap]
      ELSE With([ap EXCEPT ![appointmentId].status = CANCELLED], LAMBDA saved :
             [err |-> OK,
              slots |-> updateSlotStatusAfterBooking(sl, saved, appointment.slot),
              appts |-> saved]))

cancelAppointment(av, sl, ap, t, appointmentId, userId, role) ==
    IF appointmentId \notin ApptIds(ap)
    THEN [err |-> "AppointmentNotFound", slots |-> sl, appts |-> ap]
    ELSE With(ap[appointmentId], LAMBDA appointment :
      IF role = PATIENT /\ appointment.patient # userId
      THEN [err |-> "NotYourAppointment", slots |-> sl, appts |-> ap]
      ELSE IF role = DOCTOR /\ appointment.doctor # userId
      THEN [err |-> "NotYourAppointment", slots |-> sl, appts |-> ap]
      ELSE IF appointment.status \in {CANCELLED, COMPLETED}
      THEN [err |-> "AlreadyCancelledOrCompleted", slots |-> sl, appts |-> ap]
      ELSE IF t >= combineDateAndTime(av[sl[appointment.slot].avail].date,
                                      sl[appointment.slot].start)
      THEN [err |-> "TooLateToCancel", slots |-> sl, appts |-> ap]
      ELSE With([ap EXCEPT ![appointmentId].status = CANCELLED], LAMBDA saved :
             [err |-> OK,
              slots |-> updateSlotStatusAfterBooking(sl, saved, appointment.slot),
              appts |-> saved]))

(***************************************************************************)
(* Slot maintenance (doctor service).                                      *)
(***************************************************************************)
\* a field of the request that is absent (NoTime, or 0 for max_patients) is skipped
updateTimeslot(sl, doctorId, timeslotId, start_time, end_time, max_patients) ==
    IF ~(timeslotId \in SlotIds /\ sl[timeslotId].exists
         /\ sl[timeslotId].doctor = doctorId /\ ~sl[timeslotId].deleted)
    THEN [err |-> "SlotNotFound", slots |-> sl]
    ELSE LET s1 == IF start_time # NoTime THEN [sl EXCEPT ![timeslotId].start = start_time] ELSE sl
             s2 == IF end_time # NoTime THEN [s1 EXCEPT ![timeslotId].end = end_time] ELSE s1
             s3 == IF max_patients # 0 THEN [s2 EXCEPT ![timeslotId].max = max_patients] ELSE s2
         IN  [err |-> OK, slots |-> s3]

softDeleteTimeslot(sl, doctorId, timeslotId) ==
    IF ~(timeslotId \in SlotIds /\ sl[timeslotId].exists
         /\ sl[timeslotId].doctor = doctorId /\ ~sl[timeslotId].deleted)
    THEN [err |-> "SlotNotFound", slots |-> sl]
    ELSE [err |-> OK, slots |-> [sl EXCEPT ![timeslotId].deleted = TRUE]]

\* the status the listing gives a slot it has read with its appointments
listedStatus(slot, activeAppointments) ==
    IF activeAppointments >= slot.max THEN BOOKED
    ELSE IF slot.status = BLOCKED THEN BLOCKED
    ELSE AVAILABLE

\* the doctor's non-deleted slots are read, each slot whose status differs from the
\* recomputed one is saved, and the slots with a free place that are not BLOCKED are
\* listed
getAvailableTimeSlots(sl, ap, doctorId) ==
    With({s \in SlotIds : sl[s].exists /\ sl[s].doctor = doctorId /\ ~sl[s].deleted},
         LAMBDA allSlots :
           [err |-> OK,
            saved |-> {s \in allSlots :
                         sl[s].status # listedStatus(sl[s], CountScheduled(ap, s))},
            data |-> {s \in allSlots : /\ CountScheduled(ap, s) < sl[s].max
                                        /\ sl[s].status # BLOCKED},
            slots |-> [s \in SlotIds |->
                         IF s \in allSlots
                         THEN [sl[s] EXCEPT !.status =
                                  listedStatus(sl[s], CountScheduled(ap, s))]
                         ELSE sl[s]]])

\* the row id the table's sequence hands out next (NoId when the model's table is full)
nextId(tbl, ids) ==
    IF \E i \in ids : ~tbl[i].exists
    THEN CHOOSE i \in ids : ~tbl[i].exists /\ \A j \in ids : j < i => tbl[j].exists
    ELSE NoId

newTimeslot(av, sl, doctorId, availability_id, start_time, end_time, max_patients) ==
    IF ~(availability_id \in AvailIds /\ av[availability_id].exists
         /\ av[availability_id].doctor = doctorId /\ ~av[availability_id].deleted)
    THEN [err |-> "AvailabilityNotFound", slots |-> sl]
    ELSE [err |-> OK,
          slots |-> [sl EXCEPT ![nextId(sl, SlotIds)] =
                        [exists |-> TRUE, avail |-> availability_id, doctor |-> doctorId,
                         start |-> start_time, end |-> end_time, max |-> max_patients,
                         status |-> AVAILABLE, deleted |-> FALSE]]]

(***************************************************************************)
(* Availability maintenance (doctor service).  Only the single-date form   *)
(* of a creation request is modelled.                                      *)
(***************************************************************************)
\* new Date('2099-12-31T23:59:59.999Z'): later than every instant of the model
FarFuture == combineDateAndTime(36500, MinutesPerDay - 1)

\* an absent booking_start_at / booking_end_at is NoTime
validateAvailabilityDates(t, date, consulting_start_time, booking_start_at, booking_end_at) ==
    LET bookingStartAt == IF booking_start_at # NoTime THEN booking_start_at ELSE t
        today == (t \div MinutesPerDay) * MinutesPerDay
        bookingEndAt == IF booking_end_at # NoTime THEN booking_end_at ELSE FarFuture
        err == IF bookingStartAt < today THEN "BookingStartInPast"
               ELSE IF combineDateAndTime(date, 0) < today THEN "ConsultationDateInPast"
               ELSE IF booking_end_at # NoTime
                       /\ bookingEndAt >= combineDateAndTime(date, consulting_start_time)
                    THEN "BookingEndNotBeforeConsulting"
               ELSE IF bookingStartAt >= bookingEndAt /\ booking_end_at # NoTime
                    THEN "BookingStartNotBeforeEnd"
               ELSE OK
    IN  [err |-> err, bookingStartAt |-> bookingStartAt, bookingEndAt |-> bookingEndAt]

newAvailability(av, t, doctorId, date, consulting_start_time, consulting_end_time, session, booking_start_at, booking_end_at) ==
    IF doctorId \notin Doctors THEN [err |-> "DoctorNotFound", avails |-> av]
    ELSE LET v == validateAvailabilityDates(t, date, consulting_start_time,
                                            booking_start_at, booking_end_at)
         IN  IF v.err # OK THEN [err |-> v.err, avails |-> av]
             ELSE [err |-> OK,
                   avails |-> [av EXCEPT ![nextId(av, AvailIds)] =
                                 [exists |-> TRUE, doctor |-> doctorId, date |-> date,
                                  session |-> session, cstart |-> consulting_start_time,
                                  cend |-> consulting_end_time, bstart |-> v.bookingStartAt,
                                  bend |-> v.bookingEndAt, deleted |-> FALSE]]]

\* of the request's fields only the booking window is modelled; an absent field is NoTime
updateAvailability(av, doctorId, availabilityId, booking_start_at, booking_end_at) ==
    IF ~(availabilityId \in AvailIds /\ av[availabilityId].exists
         /\ av[availabilityId].doctor = doctorId /\ ~av[availabilityId].deleted)
    THEN [err |-> "AvailabilityNotFound", avails |-> av]
    ELSE LET a1 == IF booking_start_at # NoTime
                   THEN [av EXCEPT ![availabilityId].bstart = booking_start_at] ELSE av
             a2 == IF booking_end_at # NoTime
                   THEN [a1 EXCEPT ![availabilityId].bend = booking_end_at] ELSE a1
         IN  [err |-> OK, avails |-> a2]

(***************************************************************************)
(* Reschedule engine: shared helpers.                                      *)
(***************************************************************************)
\* a recompute that keeps BLOCKED whatever the count
updateSlotStatus_blockedFirst(sl, ap, slotId) ==
    IF ~(slotId \in SlotIds /\ sl[slotId].exists) THEN sl
    ELSE IF sl[slotId].status = BLOCKED THEN sl
    ELSE [sl EXCEPT ![slotId].status =
             IF CountScheduled(ap, slotId) >= sl[slotId].max THEN BOOKED ELSE AVAILABLE]

\* the slot status engine's copy in the schedule service
updateSlotStatus(sl, ap, slotId) ==
    IF ~(slotId \in SlotIds /\ sl[slotId].exists) THEN sl
    ELSE LET activeAppointments == CountScheduled(ap, slotId)
             newStatus == IF activeAppointments >= sl[slotId].max THEN BOOKED
                          ELSE IF sl[slotId].status = BLOCKED THEN BLOCKED
                          ELSE AVAILABLE
         IN  IF sl[slotId].status # newStatus
             THEN [sl EXCEPT ![slotId].status = newStatus] ELSE sl

\* an ownership check that finds the slot whoever its doctor is
validateSlotOwnership_anyDoctor(av, sl, slotId, doctorId) ==
    /\ slotId \in SlotIds
    /\ sl[slotId].exists
    /\ av[sl[slotId].avail].exists

\* the slot is found through its availability's doctor; deleted rows are not filtered
validateSlotOwnership(av, sl, slotId, doctorId) ==
    /\ slotId \in SlotIds
    /\ sl[slotId].exists
    /\ av[sl[slotId].avail].exists
    /\ av[sl[slotId].avail].doctor = doctorId

\* rows in table order `ord` (the query states no ORDER BY)
getAppointmentsFromSlot(ap, ord, slotId, appointmentId) ==
    SelectSeq(ord, LAMBDA i : /\ ap[i].slot = slotId
                              /\ ap[i].status = SCHEDULED
                              /\ (appointmentId # NoId => i = appointmentId))

\* the capacity, and the slot table after the status write the lookup makes
getSlotAvailableCapacity(sl, ap, slotId) ==
    LET availableCapacity == sl[slotId].max - CountScheduled(ap, slotId)
    IN  [capacity |-> IF availableCapacity > 0 THEN availableCapacity ELSE 0,
         slots |-> updateSlotStatus(sl, ap, slotId)]

moveAppointmentToSlot(sl, ap, appointmentId, newSlotId, reason) ==
    IF UQ_appointments_patient_timeslot(ap, appointmentId, ap[appointmentId].patient, newSlotId)
    THEN [err |-> "Persistence", slots |-> sl, appts |-> ap]
    ELSE With([ap EXCEPT ![appointmentId].slot = newSlotId,
                         ![appointmentId].notes = IF reason THEN @ + 1 ELSE @],
              LAMBDA saved :
                [err |-> OK,
                 slots |-> updateSlotStatus(updateSlotStatus(sl, saved, ap[appointmentId].slot),
                                            saved, newSlotId),
                 appts |-> saved])

RECURSIVE moveEach(_, _, _, _, _)
moveEach(sl, ap, toMove, targetSlotId, reason) ==
    IF toMove = <<>> THEN [err |-> OK, slots |-> sl, appts |-> ap]
    ELSE With(moveAppointmentToSlot(sl, ap, Head(toMove), targetSlotId, reason), LAMBDA r :
           IF r.err # OK THEN r
           ELSE moveEach(r.slots, r.appts, Tail(toMove), targetSlotId, reason))

RECURSIVE batchUpdateSlotStatuses(_, _, _)
batchUpdateSlotStatuses(sl, ap, slotIds) ==
    IF slotIds = {} THEN sl
    ELSE With(CHOOSE x \in slotIds : TRUE, LAMBDA s :
           batchUpdateSlotStatuses(updateSlotStatus(sl, ap, s), ap, slotIds \ {s}))

(***************************************************************************)
(* Move (slot to slot).                                                    *)
(***************************************************************************)
moveSlots(av, sl, ap, ord, doctorId, source_slot_id, target_slot_id, appointment_id, reason) ==
    IF ~validateSlotOwnership(av, sl, source_slot_id, doctorId)
       \/ ~validateSlotOwnership(av, sl, target_slot_id, doctorId)
    THEN [err |-> "SlotNotFound", slots |-> sl, appts |-> ap]
    ELSE With(getAppointmentsFromSlot(ap, ord, source_slot_id, appointment_id),
              LAMBDA appointmentsToMove :
      IF Len(appointmentsToMove) = 0
      THEN [err |-> "NoAppointmentsToMove", slots |-> sl, appts |-> ap]
      ELSE With(getSlotAvailableCapacity(sl, ap, target_slot_id), LAMBDA target :
        IF target.capacity < Len(appointmentsToMove)
        THEN [err |-> "InsufficientTargetCapacity", slots |-> target.slots, appts |-> ap]
        ELSE With(moveEach(target.slots, ap, appointmentsToMove, target_slot_id, reason),
                  LAMBDA r :
               IF r.err # OK THEN r
               ELSE [err |-> OK,
                     slots |-> batchUpdateSlotStatuses(r.slots, r.appts,
                                   {source_slot_id, target_slot_id}),
                     appts |-> r.appts])))

(***************************************************************************)
(* Shrink: the read side (displaced appointments, capacity search).        *)
(***************************************************************************)
RECURSIVE LexLess(_, _)
LexLess(a, b) ==
    IF a = <<>> THEN FALSE
    ELSE Head(a) < Head(b) \/ (Head(a) = Head(b) /\ LexLess(Tail(a), Tail(b)))

\* ORDER BY: the elements of S in ascending order of their (distinct) keys
RECURSIVE OrderBy(_, _)
OrderBy(S, key) ==
    IF S = {} THEN <<>>
    ELSE LET m == CHOOSE x \in S : \A y \in S \ {x} : LexLess(key[x], key[y])
         IN  <<m>> \o OrderBy(S \ {m}, key)

Pos(seq, x) == CHOOSE k \in 1 .. Len(seq) : seq[k] = x

Range(seq) == {seq[k] : k \in 1 .. Len(seq)}

RECURSIVE Sum(_, _)
Sum(f, S) == IF S = {} THEN 0 ELSE LET x == CHOOSE y \in S : TRUE IN f[x] + Sum(f, S \ {x})

validateAvailability(av, availabilityId, doctorId) ==
    /\ availabilityId \in AvailIds
    /\ av[availabilityId].exists
    /\ av[availabilityId].doctor = doctorId

\* the request carries "HH:MM" and the column reads back as "HH:MM:SS"; the strings are
\* compared as text, so a request equal to the stored time is the smaller string
validateShrinkingParameters(availability, new_start_time, new_end_time) ==
    /\ ~(new_start_time = NoTime /\ new_end_time = NoTime)
    /\ new_end_time # NoTime => ~(new_end_time > availability.cend)
    /\ new_start_time # NoTime => ~(new_start_time <= availability.cstart)
    /\ (new_start_time # NoTime /\ new_end_time # NoTime) => ~(new_start_time >= new_end_time)

\* a query's rows ORDER BY slot start, scheduled_on; rows that tie come in table order `ord`
byStartThenScheduled(sl, ap, ord, rows) ==
    OrderBy(rows, [i \in rows |-> <<sl[ap[i].slot].start, ap[i].scheduled_on, Pos(ord, i)>>])

\* a query that also takes the slots the new end falls into
endAffected_overlapping(sl, ap, ord, availability_id, new_end_time) ==
    byStartThenScheduled(sl, ap, ord,
        {i \in Range(ord) : /\ ap[i].status = SCHEDULED
                            /\ sl[ap[i].slot].avail = availability_id
                            /\ sl[ap[i].slot].end > new_end_time})

\* SCHEDULED appointments of the availability in slots that start after the new end
endAffected(sl, ap, ord, availability_id, new_end_time) ==
    byStartThenScheduled(sl, ap, ord,
        {i \in Range(ord) : /\ ap[i].status = SCHEDULED
                            /\ sl[ap[i].slot].avail = availability_id
                            /\ sl[ap[i].slot].start > new_end_time})

\* SCHEDULED appointments of the availability in slots that end before the new start
startAffected(sl, ap, ord, availability_id, new_start_time) ==
    byStartThenScheduled(sl, ap, ord,
        {i \in Range(ord) : /\ ap[i].status = SCHEDULED
                            /\ sl[ap[i].slot].avail = availability_id
                            /\ sl[ap[i].slot].end < new_start_time})

\* the displaced appointments: both queries, duplicates dropped (filter(findIndex ===
\* index) keeps the first occurrence of a row), then a stable sort by scheduled_on
getAffectedAppointments(sl, ap, ord, availability_id, new_start_time, new_end_time) ==
    With((IF new_end_time = NoTime THEN <<>>
          ELSE endAffected(sl, ap, ord, availability_id, new_end_time))
         \o (IF new_start_time = NoTime THEN <<>>
             ELSE startAffected(sl, ap, ord, availability_id, new_start_time)),
         LAMBDA affectedAppointments :
           OrderBy(Range(affectedAppointments),
                   [i \in Range(affectedAppointments) |->
                       <<ap[i].scheduled_on, Pos(affectedAppointments, i)>>]))

\* the slots of a search result in start-time order: each slot's id and the places it
\* still has
spotsOf(sl, ap, ids) ==
    With(OrderBy(ids, [s \in ids |-> <<sl[s].start, s>>]), LAMBDA ordered :
      [k \in 1 .. Len(ordered) |->
          [timeslot_id |-> ordered[k],
           available_spots |-> sl[ordered[k]].max - CountScheduled(ap, ordered[k])]])

findSameDayAvailableSlots(sl, ap, availability_id, new_start_time, new_end_time) ==
    spotsOf(sl, ap, {s \in SlotIds :
        /\ sl[s].exists
        /\ sl[s].avail = availability_id
        /\ new_end_time # NoTime => sl[s].end <= new_end_time
        /\ new_start_time # NoTime => sl[s].start >= new_start_time
        /\ ~sl[s].deleted
        /\ sl[s].status = AVAILABLE
        /\ CountScheduled(ap, s) < sl[s].max})

findAllAvailableSlotsOnDay(sl, ap, availabilityId) ==
    spotsOf(sl, ap, {s \in SlotIds :
        /\ sl[s].exists
        /\ sl[s].avail = availabilityId
        /\ ~sl[s].deleted
        /\ sl[s].status = AVAILABLE
        /\ CountScheduled(ap, s) < sl[s].max})

capacityOf(slotList) == Sum([k \in 1 .. Len(slotList) |-> slotList[k].available_spots],
                            1 .. Len(slotList))

\* the doctor's availabilities after currentDate, ORDER BY date (deleted rows included)
futureAvailabilities(av, doctorId, currentDate) ==
    LET later == {a \in AvailIds : av[a].exists /\ av[a].doctor = doctorId
                                   /\ av[a].date > currentDate}
    IN  OrderBy(later, [a \in later |-> <<av[a].date, a>>])

findNextAvailableDay(av, sl, ap, doctorId, currentDate) ==
    With(futureAvailabilities(av, doctorId, currentDate), LAMBDA future :
      IF future = <<>> THEN [found |-> FALSE, slots |-> <<>>, capacity |-> 0]
      ELSE With(findAllAvailableSlotsOnDay(sl, ap, future[1]), LAMBDA daySlots :
             [found |-> TRUE, slots |-> daySlots, capacity |-> capacityOf(daySlots)]))

\* .limit(7)
FutureDaysLimit == 7

\* the loop over futureDays: a day with places is kept, and the loop stops once enough
RECURSIVE collectDays(_, _, _, _, _, _)
collectDays(sl, ap, futureDays, requiredCapacity, daysWithCapacity, totalCapacityFound) ==
    IF futureDays = <<>>
    THEN [days |-> daysWithCapacity, total_capacity |-> totalCapacityFound]
    ELSE With(findAllAvailableSlotsOnDay(sl, ap, Head(futureDays)), LAMBDA daySlots :
         With(capacityOf(daySlots), LAMBDA dayCapacity :
           IF dayCapacity > 0
           THEN IF totalCapacityFound + dayCapacity >= requiredCapacity
                THEN [days |-> Append(daysWithCapacity, daySlots),
                      total_capacity |-> totalCapacityFound + dayCapacity]
                ELSE collectDays(sl, ap, Tail(futureDays), requiredCapacity,
                                 Append(daysWithCapacity, daySlots),
                                 totalCapacityFound + dayCapacity)
           ELSE collectDays(sl, ap, Tail(futureDays), requiredCapacity,
                            daysWithCapacity, totalCapacityFound)))

findMultipleFutureDays(av, sl, ap, doctorId, currentDate, requiredCapacity) ==
    With(futureAvailabilities(av, doctorId, currentDate), LAMBDA future :
    With(collectDays(sl, ap,
                     SubSeq(future, 1, IF Len(future) < FutureDaysLimit THEN Len(future)
                                       ELSE FutureDaysLimit),
                     requiredCapacity, <<>>, 0),
         LAMBDA found :
           [days |-> found.days, total_capacity |-> found.total_capacity,
            sufficient |-> found.total_capacity >= requiredCapacity]))

(***************************************************************************)
(* Shrink: the plan.  A slot list is walked in order and each slot gives   *)
(* as many places as it has spots, which is the list of places below.      *)
(***************************************************************************)
RECURSIVE places(_)
places(slotList) ==
    IF slotList = <<>> THEN <<>>
    ELSE [k \in 1 .. Head(slotList).available_spots |-> Head(slotList).timeslot_id]
         \o places(Tail(slotList))

RECURSIVE dayPlaces(_)
dayPlaces(days) == IF days = <<>> THEN <<>> ELSE places(Head(days)) \o dayPlaces(Tail(days))

actionsFor(appointments, placeList) ==
    LET n == IF Len(appointments) < Len(placeList) THEN Len(appointments) ELSE Len(placeList)
    IN  [success |-> n = Len(appointments),
         reschedule_actions |-> [k \in 1 .. n |-> [appointment_id |-> appointments[k],
                                                   new_timeslot_id |-> placeList[k]]]]

createRescheduleActions(appointments, slotList) == actionsFor(appointments, places(slotList))

createMultiDayRescheduleActions(appointments, days) == actionsFor(appointments, dayPlaces(days))

\* a strategy that fills the same day's places first and lets the rest spill to the
\* following days
generateRescheduleStrategy_spilling(av, sl, ap, doctorId, availability_id, new_start_time, new_end_time, affectedAppointments) ==
    actionsFor(affectedAppointments,
               places(findSameDayAvailableSlots(sl, ap, availability_id,
                                                new_start_time, new_end_time))
               \o dayPlaces(findMultipleFutureDays(av, sl, ap, doctorId,
                                                   av[availability_id].date,
                                                   Len(affectedAppointments)).days))

generateRescheduleStrategy(av, sl, ap, doctorId, availability_id, new_start_time, new_end_time, affectedAppointments) ==
    With(findSameDayAvailableSlots(sl, ap, availability_id, new_start_time, new_end_time),
         LAMBDA sameDaySlots :
      IF capacityOf(sameDaySlots) >= Len(affectedAppointments)
      THEN createRescheduleActions(affectedAppointments, sameDaySlots)
      ELSE With(findNextAvailableDay(av, sl, ap, doctorId, av[availability_id].date),
                LAMBDA nextDayData :
        IF nextDayData.found /\ nextDayData.capacity >= Len(affectedAppointments)
        THEN createRescheduleActions(affectedAppointments, nextDayData.slots)
        ELSE With(findMultipleFutureDays(av, sl, ap, doctorId, av[availability_id].date,
                                         Len(affectedAppointments)),
                  LAMBDA multiDayData :
               IF multiDayData.sufficient
               THEN createMultiDayRescheduleActions(affectedAppointments, multiDayData.days)
               ELSE [success |-> FALSE, reschedule_actions |-> <<>>])))

(***************************************************************************)
(* Shrink: the write side.                                                 *)
(***************************************************************************)
\* the reason of a plan's action is never empty, so the notes always grow
rescheduleAppointment(ap, appointmentId, newTimeslotId) ==
    IF UQ_appointments_patient_timeslot(ap, appointmentId, ap[appointmentId].patient,
                                        newTimeslotId)
    THEN [err |-> "Persistence", appts |-> ap]
    ELSE [err |-> OK,
          appts |-> [ap EXCEPT ![appointmentId].slot = newTimeslotId,
                               ![appointmentId].notes = @ + 1]]

RECURSIVE rescheduleEach(_, _)
rescheduleEach(ap, actions) ==
    IF actions = <<>> THEN [err |-> OK, appts |-> ap]
    ELSE With(rescheduleAppointment(ap, Head(actions).appointment_id,
                                    Head(actions).new_timeslot_id),
              LAMBDA r : IF r.err # OK THEN r ELSE rescheduleEach(r.appts, Tail(actions)))

\* a deactivation that soft-deletes the cut-off slots and leaves their status
deactivateSlots_deleteOnly(sl, availabilityId, new_start_time, new_end_time) ==
    [s \in SlotIds |->
        IF /\ sl[s].exists
           /\ sl[s].avail = availabilityId
           /\ \/ (new_end_time # NoTime /\ sl[s].start > new_end_time)
              \/ (new_start_time # NoTime /\ sl[s].end < new_start_time)
        THEN [sl[s] EXCEPT !.deleted = TRUE]
        ELSE sl[s]]

deactivateSlots(sl, availabilityId, new_start_time, new_end_time) ==
    [s \in SlotIds |->
        IF /\ sl[s].exists
           /\ sl[s].avail = availabilityId
           /\ \/ (new_end_time # NoTime /\ sl[s].start > new_end_time)
              \/ (new_start_time # NoTime /\ sl[s].end < new_start_time)
        THEN [sl[s] EXCEPT !.status = BLOCKED, !.deleted = TRUE]
        ELSE sl[s]]

\* the tables after the availability's times are saved and its cut-off slots deactivated
applyShrinking(av, sl, ap, availability_id, new_start_time, new_end_time) ==
    [err |-> OK,
     avails |-> [av EXCEPT ![availability_id].cend =
                               IF new_end_time # NoTime THEN new_end_time ELSE @,
                           ![availability_id].cstart =
                               IF new_start_time # NoTime THEN new_start_time ELSE @],
     slots |-> deactivateSlots(sl, availability_id, new_start_time, new_end_time),
     appts |-> ap]

\* the request from the displaced appointments on; its reply carries
\* appointments_rescheduled, the number of actions of the plan
shrinkAffected(av, sl, ap, doctorId, availability_id, new_start_time, new_end_time, affectedAppointments) ==
    IF Len(affectedAppointments) = 0
    THEN [appointments_rescheduled |-> 0]
         @@ applyShrinking(av, sl, ap, availability_id, new_start_time, new_end_time)
    ELSE With(generateRescheduleStrategy(av, sl, ap, doctorId, availability_id,
                                         new_start_time, new_end_time, affectedAppointments),
              LAMBDA strategy :
      IF ~strategy.success
      THEN [err |-> "InsufficientCapacity", avails |-> av, slots |-> sl, appts |-> ap]
      ELSE With(rescheduleEach(ap, strategy.reschedule_actions), LAMBDA moved :
             IF moved.err # OK
             THEN [err |-> moved.err, avails |-> av, slots |-> sl, appts |-> moved.appts]
             ELSE [appointments_rescheduled |-> Len(strategy.reschedule_actions)]
                  @@ applyShrinking(av, sl, moved.appts, availability_id,
                                    new_start_time, new_end_time)))

\* a shrink that saves the availability's new times before it plans the reassignment
shrinkSchedule_applyFirst(av, sl, ap, ord, doctorId, availability_id, new_start_time, new_end_time) ==
    IF ~validateAvailability(av, availability_id, doctorId)
    THEN [err |-> "AvailabilityNotFound", avails |-> av, slots |-> sl, appts |-> ap]
    ELSE IF ~validateShrinkingParameters(av[availability_id], new_start_time, new_end_time)
    THEN [err |-> "ShrinkParams", avails |-> av, slots |-> sl, appts |-> ap]
    ELSE shrinkAffected(applyShrinking(av, sl, ap, availability_id,
                                       new_start_time, new_end_time).avails,
                        sl, ap, doctorId, availability_id, new_start_time, new_end_time,
                        getAffectedAppointments(sl, ap, ord, availability_id,
                                                new_start_time, new_end_time))

shrinkSchedule(av, sl, ap, ord, doctorId, availability_id, new_start_time, new_end_time) ==
    IF ~validateAvailability(av, availability_id, doctorId)
    THEN [err |-> "AvailabilityNotFound", avails |-> av, slots |-> sl, appts |-> ap]
    ELSE IF ~validateShrinkingParameters(av[availability_id], new_start_time, new_end_time)
    THEN [err |-> "ShrinkParams", avails |-> av, slots |-> sl, appts |-> ap]
    ELSE shrinkAffected(av, sl, ap, doctorId, availability_id, new_start_time, new_end_time,
                        getAffectedAppointments(sl, ap, ord, availability_id,
                                                new_start_time, new_end_time))

(***************************************************************************)
(* Time shift.                                                             *)
(***************************************************************************)
\* the slots of the availability that are not deleted
shiftedSlots(sl, availability_id) ==
    {s \in SlotIds : sl[s].exists /\ sl[s].avail = availability_id /\ ~sl[s].deleted}

\* a shift that also moves the instants of the appointments booked in the shifted slots
shiftTime_movingAppointments(av, sl, ap, doctorId, availability_id, new_start_time, new_end_time, shift_minutes) ==
    IF ~validateAvailability(av, availability_id, doctorId)
    THEN [err |-> "AvailabilityNotFound", avails |-> av, slots |-> sl, appts |-> ap]
    ELSE IF shift_minutes = 0
    THEN [err |-> "ShiftMinutesRequired", avails |-> av, slots |-> sl, appts |-> ap]
    ELSE IF shiftedSlots(sl, availability_id) = {}
    THEN [err |-> "NoSlotsToShift", avails |-> av, slots |-> sl, appts |-> ap]
    ELSE [err |-> OK,
          avails |-> [av EXCEPT ![availability_id].cstart = new_start_time,
                                ![availability_id].cend = new_end_time],
          slots |-> [s \in SlotIds |->
                       IF s \in shiftedSlots(sl, availability_id)
                       THEN [sl[s] EXCEPT !.start = shiftTimeStr(@, shift_minutes),
                                          !.end = shiftTimeStr(@, shift_minutes)]
                       ELSE sl[s]],
          appts |-> [i \in ApptIds(ap) |->
                       IF ap[i].slot \in shiftedSlots(sl, availability_id)
                       THEN [ap[i] EXCEPT !.scheduled_on = @ + shift_minutes]
                       ELSE ap[i]]]

\* a shift that checks shift_minutes before it looks the availability up
shiftTime_minutesFirst(av, sl, ap, doctorId, availability_id, new_start_time, new_end_time, shift_minutes) ==
    IF shift_minutes = 0
    THEN [err |-> "ShiftMinutesRequired", avails |-> av, slots |-> sl, appts |-> ap]
    ELSE IF ~validateAvailability(av, availability_id, doctorId)
    THEN [err |-> "AvailabilityNotFound", avails |-> av, slots |-> sl, appts |-> ap]
    ELSE IF shiftedSlots(sl, availability_id) = {}
    THEN [err |-> "NoSlotsToShift", avails |-> av, slots |-> sl, appts |-> ap]
    ELSE [err |-> OK,
          avails |-> [av EXCEPT ![availability_id].cstart = new_start_time,
                                ![availability_id].cend = new_end_time],
          slots |-> [s \in SlotIds |->
                       IF s \in shiftedSlots(sl, availability_id)
                       THEN [sl[s] EXCEPT !.start = shiftTimeStr(@, shift_minutes),
                                          !.end = shiftTimeStr(@, shift_minutes)]
                       ELSE sl[s]],
          appts |-> ap]

\* an absent shift_minutes is 0; the availability takes the request's times as given,
\* each slot moves by shift_minutes
shiftTime(av, sl, ap, doctorId, availability_id, new_start_time, new_end_time, shift_minutes) ==
    IF ~validateAvailability(av, availability_id, doctorId)
    THEN [err |-> "AvailabilityNotFound", avails |-> av, slots |-> sl, appts |-> ap]
    ELSE IF shift_minutes = 0
    THEN [err |-> "ShiftMinutesRequired", avails |-> av, slots |-> sl, appts |-> ap]
    ELSE IF shiftedSlots(sl, availability_id) = {}
    THEN [err |-> "NoSlotsToShift", avails |-> av, slots |-> sl, appts |-> ap]
    ELSE [err |-> OK,
          avails |-> [av EXCEPT ![availability_id].cstart = new_start_time,
                                ![availability_id].cend = new_end_time],
          slots |-> [s \in SlotIds |->
                       IF s \in shiftedSlots(sl, availability_id)
                       THEN [sl[s] EXCEPT !.start = shiftTimeStr(@, shift_minutes),
                                          !.end = shiftTimeStr(@, shift_minutes)]
                       ELSE sl[s]],
          appts |-> ap]

(***************************************************************************)
(* The engine's entry point.  A request's absent field is NoId, NoTime or  *)
(* 0 (shift_minutes).                                                      *)
(***************************************************************************)
SLOT_SLOT == "slot_slot"
TIME_SHIFT == "time_shift"
SHRINKING == "shrinking"

validateUnifiedRescheduleDto(dto) ==
    CASE dto.scheduling_type = SLOT_SLOT ->
           IF dto.source_slot_id = NoId \/ dto.target_slot_id = NoId
           THEN "SlotIdsRequired" ELSE OK
      [] dto.scheduling_type = TIME_SHIFT ->
           IF dto.new_start_time = NoTime \/ dto.new_end_time = NoTime
           THEN "ShiftTimesRequired" ELSE OK
      [] dto.scheduling_type = SHRINKING ->
           IF dto.new_start_time = NoTime /\ dto.new_end_time = NoTime
           THEN "ShrinkTimesRequired" ELSE OK
      [] OTHER -> "InvalidSchedulingType"

\* a move's reply names the slot and appointment tables only: the availabilities stay
unifiedReschedule(av, sl, ap, ord, doctorId, dto) ==
    IF validateUnifiedRescheduleDto(dto) # OK
    THEN [err |-> validateUnifiedRescheduleDto(dto), avails |-> av, slots |-> sl, appts |-> ap]
    ELSE CASE dto.scheduling_type = SLOT_SLOT ->
                moveSlots(av, sl, ap, ord, doctorId, dto.source_slot_id, dto.target_slot_id,
                          dto.appointment_id, dto.reason) @@ [avails |-> av]
           [] dto.scheduling_type = TIME_SHIFT ->
                shiftTime(av, sl, ap, doctorId, dto.availability_id, dto.new_start_time,
                          dto.new_end_time, dto.shift_minutes)
           [] dto.scheduling_type = SHRINKING ->
                shrinkSchedule(av, sl, ap, ord, doctorId, dto.availability_id,
                               dto.new_start_time, dto.new_end_time)
           [] OTHER -> [err |-> "InvalidSchedulingType", avails |-> av, slots |-> sl,
                        appts |-> ap]

(***************************************************************************)
(* Reschedule of one appointment to a new slot (appointment service).      *)
(***************************************************************************)
\* the slot statuses after the save: the old slot is AVAILABLE once it is empty, the new
\* slot is BOOKED once it is full
rescheduleStatuses(sl, saved, oldSlotId, new_timeslot_id) ==
    With(IF CountScheduled(saved, oldSlotId) = 0
         THEN [sl EXCEPT ![oldSlotId].status = AVAILABLE] ELSE sl,
         LAMBDA s1 :
           IF CountScheduled(saved, new_timeslot_id) >= sl[new_timeslot_id].max
           THEN [s1 EXCEPT ![new_timeslot_id].status = BOOKED] ELSE s1)

rescheduleAppointmentToNewSlot(av, sl, ap, doctorId, appointment_id, new_timeslot_id, reason) ==
    IF ~(/\ appointment_id \in ApptIds(ap)
         /\ ap[appointment_id].doctor = doctorId
         /\ ap[appointment_id].status = SCHEDULED)
    THEN [err |-> "AppointmentNotFound", slots |-> sl, appts |-> ap]
    ELSE IF ~(/\ new_timeslot_id \in SlotIds
              /\ sl[new_timeslot_id].exists
              /\ sl[new_timeslot_id].doctor = doctorId
              /\ ~sl[new_timeslot_id].deleted)
    THEN [err |-> "SlotNotFound", slots |-> sl, appts |-> ap]
    ELSE IF sl[new_timeslot_id].status # AVAILABLE
    THEN [err |-> "NewSlotNotAvailable", slots |-> sl, appts |-> ap]
    ELSE IF CountScheduled(ap, new_timeslot_id) >= sl[new_timeslot_id].max
    THEN [err |-> "SlotFull", slots |-> sl, appts |-> ap]
    ELSE IF UQ_appointments_patient_timeslot(ap, appointment_id, ap[appointment_id].patient,
                                             new_timeslot_id)
    THEN [err |-> "Persistence", slots |-> sl, appts |-> ap]
    ELSE With([ap EXCEPT ![appointment_id].slot = new_timeslot_id,
                         ![appointment_id].scheduled_on =
                             combineDateAndTime(av[sl[new_timeslot_id].avail].date,
                                                sl[new_timeslot_id].start),
                         ![appointment_id].notes = IF reason THEN @ + 1 ELSE @],
              LAMBDA saved :
                [err |-> OK,
                 slots |-> rescheduleStatuses(sl, saved, ap[appointment_id].slot,
                                              new_timeslot_id),
                 appts |-> saved])

(***************************************************************************)
(* The requests as steps of the system.  A request is one step when the    *)
(* requests run one at a time.                                             *)
(***************************************************************************)
Perms(S) == {f \in [1 .. Cardinality(S) -> S] : \A i, j \in DOMAIN f : f[i] = f[j] => i = j}

Users == [id : Patients, role : {PATIENT}] \cup [id : Doctors, role : {DOCTOR}]

Idle == [pc |-> "idle", patient |-> "p1", timeslot_id |-> NoId, timeslot |-> NoSlot,
         count |-> 0, status |-> AVAILABLE]

Unobserved == [op |-> "unobserved", err |-> OK]

Started == [op |-> "init", err |-> OK]

\* the reply of a request; a specification that starts with the replies unobserved
\* states properties of the tables alone and keeps no reply
Reply(op, err) == IF last = Unobserved THEN last ELSE [op |-> op, err |-> err]

\* the tables as they are; an operation's result names the tables it wrote
Tables == [avails |-> avails, slots |-> slots, appts |-> appts]

\* the request ends: its writes and its reply.  `rows` bounds the appointment table, and
\* MaxNotes the reasons appended to an appointment's notes
Commit(op, r, rows) ==
    /\ Len(r.appts) <= rows \/ Len(r.appts) = Len(appts)
    /\ \A i \in ApptIds(r.appts) : r.appts[i].notes <= MaxNotes
    /\ avails' = r.avails
    /\ slots' = r.slots
    /\ appts' = r.appts
    /\ last' = Reply(op, r.err)
    /\ UNCHANGED <<now, req>>

Book(p, d, s, rows) ==
    Commit("book", newAppointment(avails, slots, appts, now, p, d, s) @@ Tables, rows)

Cancel(appointmentId, user) ==
    Commit("cancel",
           cancelAppointment(avails, slots, appts, now, appointmentId, user.id, user.role)
               @@ Tables,
           Len(appts))

MoveSlots(ord, d, src, tgt, appointmentId, reason) ==
    Commit("move",
           moveSlots(avails, slots, appts, ord, d, src, tgt, appointmentId, reason) @@ Tables,
           Len(appts))

Shrink(ord, d, a, new_start_time, new_end_time) ==
    Commit("shrink",
           shrinkSchedule(avails, slots, appts, ord, d, a, new_start_time, new_end_time),
           Len(appts))

UpdateTimeslot(d, s, max_patients) ==
    Commit("updateTimeslot",
           updateTimeslot(slots, d, s, slots[s].start, slots[s].end, max_patients) @@ Tables,
           Len(appts))

NewTimeslot(d, a, start_time, end_time, max_patients) ==
    /\ nextId(slots, SlotIds) # NoId
    /\ Commit("newTimeslot",
              newTimeslot(avails, slots, d, a, start_time, end_time, max_patients) @@ Tables,
              Len(appts))

NewAvailability(d, date, booking_start_at, booking_end_at) ==
    /\ nextId(avails, AvailIds) # NoId
    /\ Commit("newAvailability",
              newAvailability(avails, now, d, date, T0900, T1000, "morning",
                              booking_start_at, booking_end_at) @@ Tables,
              Len(appts))

UpdateAvailability(d, a, booking_start_at, booking_end_at) ==
    Commit("updateAvailability",
           updateAvailability(avails, d, a, booking_start_at, booking_end_at) @@ Tables,
           Len(appts))

SoftDeleteTimeslot(d, s) ==
    Commit("softDeleteTimeslot", softDeleteTimeslot(slots, d, s) @@ Tables, Len(appts))

GetAvailableTimeSlots(d) ==
    Commit("list", getAvailableTimeSlots(slots, appts, d) @@ Tables, Len(appts))

\* a request to the engine's entry point
UnifiedReschedule(ord, d, dto) ==
    Commit("reschedule", unifiedReschedule(avails, slots, appts, ord, d, dto), Len(appts))

RescheduleToNewSlot(d, appointment_id, new_timeslot_id, reason) ==
    Commit("rescheduleToNewSlot",
           rescheduleAppointmentToNewSlot(avails, slots, appts, d, appointment_id,
                                          new_timeslot_id, reason) @@ Tables,
           Len(appts))

\* the clock moves on to the next instant of `clock`
Tick(clock) ==
    /\ \E i \in 1 .. Len(clock) - 1 : now = clock[i] /\ now' = clock[i + 1]
    /\ last' = Reply("tick", OK)
    /\ UNCHANGED <<avails, slots, appts, req>>

(***************************************************************************)
(* A booking request as the steps between its awaits.  The request keeps   *)
(* the slot as it read it, and the count it read.                          *)
(***************************************************************************)
Bookers == {"b1", "b2"}

\* findOne(timeslot), the checks on it, findOne(patient)
BookFindSlot(b, p, d, s) ==
    LET chk == slotAdmission(avails, slots, now, p, d, s) IN
    /\ req[b].pc = "idle"
    /\ req' = IF chk # OK THEN req
              ELSE [req EXCEPT ![b] = [Idle EXCEPT !.pc = "checkSession", !.patient = p,
                                                   !.timeslot_id = s, !.timeslot = slots[s]]]
    /\ last' = IF chk # OK THEN Reply("book", chk) ELSE last
    /\ UNCHANGED <<avails, slots, appts, now>>

\* findOne(appointment of the patient in the session)
BookCheckSession(b) ==
    LET s == req[b].timeslot_id
        dup == existingAppointmentInSession(avails, [slots EXCEPT ![s] = req[b].timeslot],
                                            appts, req[b].patient, s)
    IN
    /\ req[b].pc = "checkSession"
    /\ req' = [req EXCEPT ![b] = IF dup THEN Idle ELSE [@ EXCEPT !.pc = "count"]]
    /\ last' = IF dup THEN Reply("book", "DuplicateSession") ELSE last
    /\ UNCHANGED <<avails, slots, appts, now>>

\* count(SCHEDULED appointments of the slot)
BookCount(b) ==
    LET existingAppointmentsCount == CountScheduled(appts, req[b].timeslot_id)
        full == existingAppointmentsCount >= req[b].timeslot.max
    IN
    /\ req[b].pc = "count"
    /\ req' = [req EXCEPT ![b] = IF full THEN Idle
                                 ELSE [@ EXCEPT !.pc = "save",
                                                !.count = existingAppointmentsCount]]
    /\ last' = IF full THEN Reply("book", "SlotFull") ELSE last
    /\ UNCHANGED <<avails, slots, appts, now>>

\* save(appointment)
BookSave(b) ==
    LET s == req[b].timeslot_id
        timeslot == req[b].timeslot
        violates == UQ_appointments_patient_timeslot(appts, NoId, req[b].patient, s)
        appointment ==
            [patient |-> req[b].patient, doctor |-> timeslot.doctor, slot |-> s,
             status |-> SCHEDULED,
             scheduled_on |-> combineDateAndTime(avails[timeslot.avail].date,
                                 calculateReportingTime(timeslot, req[b].count)),
             notes |-> 0]
    IN
    /\ req[b].pc = "save"
    /\ ~violates => Len(appts) < MaxAppts
    /\ appts' = IF violates THEN appts ELSE Append(appts, appointment)
    /\ req' = [req EXCEPT ![b] = IF violates THEN Idle ELSE [@ EXCEPT !.pc = "statusRead"]]
    /\ last' = IF violates THEN Reply("book", "Persistence") ELSE last
    /\ UNCHANGED <<avails, slots, now>>

\* updateSlotStatusAfterBooking: findOne(slot with its appointments)
BookStatusRead(b) ==
    LET s == req[b].timeslot_id
        newStatus == updateSlotStatusAfterBooking(slots, appts, s)[s].status
    IN
    /\ req[b].pc = "statusRead"
    /\ req' = [req EXCEPT ![b] = IF slots[s].status # newStatus
                                 THEN [@ EXCEPT !.pc = "statusWrite", !.status = newStatus]
                                 ELSE Idle]
    /\ last' = IF slots[s].status # newStatus THEN last ELSE Reply("book", OK)
    /\ UNCHANGED <<avails, slots, appts, now>>

\* updateSlotStatusAfterBooking: save(slot)
BookStatusWrite(b) ==
    /\ req[b].pc = "statusWrite"
    /\ slots' = [slots EXCEPT ![req[b].timeslot_id].status = req[b].status]
    /\ req' = [req EXCEPT ![b] = Idle]
    /\ last' = Reply("book", OK)
    /\ UNCHANGED <<avails, appts, now>>

(***************************************************************************)
(* A move and a cancellation as the steps between their awaits.  Each      *)
(* request keeps the appointment as it read it, and its save writes that   *)
(* copy back with the one field it changed.                                *)
(***************************************************************************)
NoRow == [patient |-> "p1", doctor |-> "d1", slot |-> NoId, status |-> CANCELLED,
          scheduled_on |-> 0, notes |-> 0]

IdleMove == [pc |-> "idle", target |-> NoId, queue |-> <<>>, id |-> NoId,
             appointment |-> NoRow, err |-> OK]

IdleCancel == [pc |-> "idle", id |-> NoId, appointment |-> NoRow, err |-> OK]

\* the move's reply
MoveEnds(err) == [req.m EXCEPT !.pc = "done", !.err = err]

\* moveSlots up to its loop: ownership, the appointments to move, the target's capacity
\* (whose lookup rewrites the target's status)
MoveBegin(d, src, tgt, appointment_id) ==
    /\ req.m.pc = "idle"
    /\ IF ~validateSlotOwnership(avails, slots, src, d)
          \/ ~validateSlotOwnership(avails, slots, tgt, d)
       THEN req' = [req EXCEPT !.m = MoveEnds("SlotNotFound")] /\ UNCHANGED slots
       ELSE IF getAppointmentsFromSlot(appts, [i \in ApptIds(appts) |-> i], src,
                                       appointment_id) = <<>>
       THEN req' = [req EXCEPT !.m = MoveEnds("NoAppointmentsToMove")] /\ UNCHANGED slots
       ELSE /\ slots' = getSlotAvailableCapacity(slots, appts, tgt).slots
            /\ req' = [req EXCEPT !.m =
                   IF getSlotAvailableCapacity(slots, appts, tgt).capacity
                      < Len(getAppointmentsFromSlot(appts, [i \in ApptIds(appts) |-> i],
                                                    src, appointment_id))
                   THEN MoveEnds("InsufficientTargetCapacity")
                   ELSE [req.m EXCEPT !.pc = "find", !.target = tgt,
                                      !.queue = getAppointmentsFromSlot(appts,
                                                    [i \in ApptIds(appts) |-> i], src,
                                                    appointment_id)]]
    /\ UNCHANGED <<avails, appts, now, last>>

\* moveAppointmentToSlot: appointmentRepository.findOne
MoveFind ==
    /\ req.m.pc = "find"
    /\ req' = [req EXCEPT !.m.pc = "save", !.m.id = Head(req.m.queue),
                          !.m.appointment = appts[Head(req.m.queue)]]
    /\ UNCHANGED <<avails, slots, appts, now, last>>

\* moveAppointmentToSlot: appointmentRepository.save of the copy with its new slot
MoveSave ==
    /\ req.m.pc = "save"
    /\ IF UQ_appointments_patient_timeslot(appts, req.m.id, req.m.appointment.patient,
                                           req.m.target)
       THEN req' = [req EXCEPT !.m = MoveEnds("Persistence")] /\ UNCHANGED appts
       ELSE /\ appts' = [appts EXCEPT ![req.m.id] =
                              [req.m.appointment EXCEPT !.slot = req.m.target]]
            /\ req' = [req EXCEPT !.m.pc = "status"]
    /\ UNCHANGED <<avails, slots, now, last>>

\* a status step that recomputes the source slot alone
MoveStatus_sourceOnly ==
    /\ req.m.pc = "status"
    /\ slots' = updateSlotStatus(slots, appts, req.m.appointment.slot)
    /\ req' = [req EXCEPT !.m = IF Tail(req.m.queue) = <<>>
                                 THEN [req.m EXCEPT !.pc = "done", !.queue = <<>>]
                                 ELSE [req.m EXCEPT !.pc = "find", !.queue = Tail(@)]]
    /\ UNCHANGED <<avails, appts, now, last>>

\* moveAppointmentToSlot: the two status updates; after the last appointment the batch
\* update and the reply
MoveStatus ==
    /\ req.m.pc = "status"
    /\ slots' = updateSlotStatus(updateSlotStatus(slots, appts, req.m.appointment.slot),
                                 appts, req.m.target)
    /\ req' = [req EXCEPT !.m = IF Tail(req.m.queue) = <<>>
                                 THEN [req.m EXCEPT !.pc = "done", !.queue = <<>>]
                                 ELSE [req.m EXCEPT !.pc = "find", !.queue = Tail(@)]]
    /\ UNCHANGED <<avails, appts, now, last>>

\* cancelAppointment: appointmentRepo.findOne and the checks made on the copy
CancelFind(appointmentId, user) ==
    /\ req.c.pc = "idle"
    /\ req' = [req EXCEPT !.c =
           With(cancelAppointment(avails, slots, appts, now, appointmentId, user.id,
                                  user.role).err,
                LAMBDA chk :
                  IF chk # OK THEN [req.c EXCEPT !.pc = "done", !.id = appointmentId,
                                                 !.err = chk]
                  ELSE [req.c EXCEPT !.pc = "save", !.id = appointmentId,
                                     !.appointment = appts[appointmentId]])]
    /\ UNCHANGED <<avails, slots, appts, now, last>>

\* cancelAppointment: appointmentRepo.save of the copy with its new status
CancelSave ==
    /\ req.c.pc = "save"
    /\ appts' = [appts EXCEPT ![req.c.id] = [req.c.appointment EXCEPT !.status = CANCELLED]]
    /\ req' = [req EXCEPT !.c.pc = "status"]
    /\ UNCHANGED <<avails, slots, now, last>>

\* cancelAppointment: the status update of the copy's slot, and the reply
CancelStatus ==
    /\ req.c.pc = "status"
    /\ slots' = updateSlotStatusAfterBooking(slots, appts, req.c.appointment.slot)
    /\ req' = [req EXCEPT !.c.pc = "done"]
    /\ UNCHANGED <<avails, appts, now, last>>

(***************************************************************************)
(* The clinics.  Doctor d1 consults in the morning; booking opens on day 1 *)
(* at 00:00 and closes at 08:00 of the consulting day.                     *)
(***************************************************************************)
Capacities == {1, 2}

Morning(doctor, date, consulting_end_time) ==
    [exists |-> TRUE, doctor |-> doctor, date |-> date, session |-> "morning",
     cstart |-> T0900, cend |-> consulting_end_time,
     bstart |-> combineDateAndTime(1, 0), bend |-> combineDateAndTime(date, T0800),
     deleted |-> FALSE]

Slot(avail, doctor, start, end, max) ==
    [exists |-> TRUE, avail |-> avail, doctor |-> doctor, start |-> start, end |-> end,
     max |-> max, status |-> AVAILABLE, deleted |-> FALSE]

\* the instants at which requests arrive
Clock == <<combineDateAndTime(1, T0900), combineDateAndTime(2, T0800),
           combineDateAndTime(2, T0900), combineDateAndTime(2, T0915)>>

NoRequests == [b \in Bookers |-> Idle]

(***************************************************************************)
(* Requests one at a time: two consulting days, three slots.               *)
(***************************************************************************)
Init ==
    /\ avails = [a \in AvailIds |-> CASE a = 1 -> Morning("d1", 2, T1000)
                                      [] a = 2 -> Morning("d1", 3, T1000)
                                      [] OTHER -> NoAvail]
    /\ slots = [s \in SlotIds |-> CASE s = 1 -> Slot(1, "d1", T0900, T0930, 2)
                                   [] s = 2 -> Slot(1, "d1", T0930, T1000, 2)
                                   [] s = 3 -> Slot(2, "d1", T0900, T0930, 2)
                                   [] OTHER -> NoSlot]
    /\ appts = <<>>
    /\ now = Clock[1]
    /\ last = Unobserved
    /\ req = NoRequests

Next ==
    \/ \E p \in {"p1", "p2"}, s \in 1 .. 3 : Book(p, "d1", s, MaxAppts)
    \/ \E a \in ApptIds(appts), u \in Users : Cancel(a, u)
    \/ \E src, tgt \in 1 .. 3 : \E ord \in Perms(ScheduledIn(appts, src)) :
          MoveSlots(ord, "d1", src, tgt, NoId, FALSE)
    \/ \E s \in 1 .. 3, m \in Capacities : UpdateTimeslot("d1", s, m)
    \/ Tick(<<Clock[1], Clock[4]>>)

Spec == Init /\ [][Next]_vars

(***************************************************************************)
(* Two booking requests interleaved at their awaits: one consulting day,   *)
(* a slot with one place and a slot with two.                              *)
(***************************************************************************)
InitBooking ==
    /\ avails = [a \in AvailIds |-> IF a = 1 THEN Morning("d1", 2, T1000) ELSE NoAvail]
    /\ slots = [s \in SlotIds |-> CASE s = 1 -> Slot(1, "d1", T0900, T0930, 1)
                                   [] s = 2 -> Slot(1, "d1", T0930, T1000, 2)
                                   [] OTHER -> NoSlot]
    /\ appts = <<>>
    /\ now = Clock[1]
    /\ last = Unobserved
    /\ req = NoRequests

NextBooking ==
    \/ \E b \in Bookers, p \in {"p1", "p2"}, s \in 1 .. 2 : BookFindSlot(b, p, "d1", s)
    \/ \E b \in Bookers : BookCheckSession(b)
    \/ \E b \in Bookers : BookCount(b)
    \/ \E b \in Bookers : BookSave(b)
    \/ \E b \in Bookers : BookStatusRead(b)
    \/ \E b \in Bookers : BookStatusWrite(b)

SpecBooking == InitBooking /\ [][NextBooking]_vars

(***************************************************************************)
(* Shrinking day 2: its first slot stays, its last slot (three places) is  *)
(* cut off by a new end of 09:30; days 3 and 4 have one slot each.  The    *)
(* capacities of the slots that can take displaced patients are the        *)
(* clinic's choice.                                                        *)
(***************************************************************************)
ShrinkTimes == {NoTime, T0930}

\* the rows a shrink of availability a reads, in any table order
ShrinkRows(a) == {i \in ApptIds(appts) : appts[i].status = SCHEDULED
                                         /\ slots[appts[i].slot].avail = a}

InitShrink ==
    /\ avails = [a \in AvailIds |-> Morning("d1", a + 1, IF a = 1 THEN T1030 ELSE T1000)]
    /\ \E c1 \in {1, 2}, c3 \in {1, 2, 3}, c4 \in {1, 2} :
          slots = [s \in SlotIds |-> CASE s = 1 -> Slot(1, "d1", T0900, T0930, c1)
                                       [] s = 2 -> Slot(1, "d1", T1000, T1030, 3)
                                       [] s = 3 -> Slot(2, "d1", T0900, T0930, c3)
                                       [] s = 4 -> Slot(3, "d1", T0900, T0930, c4)]
    /\ appts = <<>>
    /\ now = Clock[1]
    /\ last = Started
    /\ req = NoRequests

NextShrink ==
    \/ \E p \in {"p1", "p2", "p3"} : Book(p, "d1", 2, MaxShrinkAppts)
    \/ \E s \in {1, 3} : Book("p1", "d1", s, MaxShrinkAppts)
    \/ \E a \in ApptIds(appts) :
          appts[a].patient = "p1" /\ Cancel(a, [id |-> "p1", role |-> PATIENT])
    \/ \E ne \in ShrinkTimes : \E ord \in Perms(ShrinkRows(1)) :
          Shrink(ord, "d1", 1, NoTime, ne)

SpecShrink == InitShrink /\ [][NextShrink]_vars

(***************************************************************************)
(* Shrinking day 2 of a doctor who consults twice on day 3: the evening    *)
(* session of day 3 was entered before its morning session, so it has the  *)
(* smaller availability id.  Day 2 keeps its first slot and loses its last *)
(* slot (three places) to a new end of 09:30.                              *)
(***************************************************************************)
Evening(doctor, date) ==
    [Morning(doctor, date, T1730) EXCEPT !.session = "evening", !.cstart = T1700]

InitSessions ==
    /\ avails = [a \in AvailIds |-> CASE a = 1 -> Morning("d1", 2, T1030)
                                      [] a = 2 -> Evening("d1", 3)
                                      [] a = 3 -> Morning("d1", 3, T1000)]
    /\ \E c1 \in {1, 2}, c3 \in {1, 2}, c4 \in {1, 2} :
          slots = [s \in SlotIds |-> CASE s = 1 -> Slot(1, "d1", T0900, T0930, c1)
                                       [] s = 2 -> Slot(1, "d1", T1000, T1030, 3)
                                       [] s = 3 -> Slot(2, "d1", T1700, T1730, c3)
                                       [] s = 4 -> Slot(3, "d1", T0900, T0930, c4)]
    /\ appts = <<>>
    /\ now = Clock[1]
    /\ last = Started
    /\ req = NoRequests

NextSessions ==
    \/ \E p \in {"p1", "p2", "p3"} : Book(p, "d1", 2, MaxShrinkAppts)
    \/ \E a \in ApptIds(appts) :
          appts[a].patient = "p1" /\ Cancel(a, [id |-> "p1", role |-> PATIENT])
    \/ \E ne \in ShrinkTimes : \E ord \in Perms(ShrinkRows(1)) :
          Shrink(ord, "d1", 1, NoTime, ne)

SpecSessions == InitSessions /\ [][NextSessions]_vars

(***************************************************************************)
(* Reporting times: one consulting day with one slot of 15, 30, 45 or 60   *)
(* minutes and of any capacity; the doctor may change the capacity between *)
(* bookings.                                                               *)
(***************************************************************************)
InitReporting ==
    /\ avails = [a \in AvailIds |-> IF a = 1 THEN Morning("d1", 2, T1000) ELSE NoAvail]
    /\ \E start \in {T0900, T0915}, end \in {T0930, T1000}, c \in 1 .. MaxReportCap :
          slots = [s \in SlotIds |-> IF s = 1 THEN Slot(1, "d1", start, end, c) ELSE NoSlot]
    /\ appts = <<>>
    /\ now = Clock[1]
    /\ last = Started
    /\ req = NoRequests

NextReporting ==
    \/ \E p \in {"p1", "p2", "p3"} : Book(p, "d1", 1, MaxReportAppts)
    \/ \E a \in ApptIds(appts) :
          appts[a].patient = "p1" /\ Cancel(a, [id |-> "p1", role |-> PATIENT])
    \/ UpdateTimeslot("d1", 1, MaxReportCap)

SpecReporting == InitReporting /\ [][NextReporting]_vars

(***************************************************************************)
(* Cancellations around the start of the consultation: one consulting day, *)
(* a slot with one place at 09:00 and a slot with two at 09:30; the doctor *)
(* may change the capacity of the second.                                  *)
(***************************************************************************)
InitCancel ==
    /\ avails = [a \in AvailIds |-> IF a = 1 THEN Morning("d1", 2, T1000) ELSE NoAvail]
    /\ slots = [s \in SlotIds |-> CASE s = 1 -> Slot(1, "d1", T0900, T0930, 1)
                                   [] s = 2 -> Slot(1, "d1", T0930, T1000, 2)
                                   [] OTHER -> NoSlot]
    /\ appts = <<>>
    /\ now = Clock[1]
    /\ last = Started
    /\ req = NoRequests

NextCancel ==
    \/ \E p \in {"p1", "p2"}, s \in 1 .. 2 : Book(p, "d1", s, MaxCancelAppts)
    \/ \E a \in ApptIds(appts), u \in {x \in Users : x.id \in {"p1", "p2", "d1"}} :
          Cancel(a, u)
    \/ \E m \in Capacities : UpdateTimeslot("d1", 2, m)
    \/ Tick(Clock)

SpecCancel == InitCancel /\ [][NextCancel]_vars

(***************************************************************************)
(* The booking window: the doctor declares day 2 (consulting 09:00-10:00)  *)
(* with a booking window, gives it one slot 09:00-09:30, and may rewrite   *)
(* the window; patients book while the clock runs up to the slot's start.  *)
(***************************************************************************)
WindowClock == <<combineDateAndTime(1, T0900), combineDateAndTime(2, T0800),
                 combineDateAndTime(2, T0800 + 30), combineDateAndTime(2, T0800 + 45),
                 combineDateAndTime(2, T0900)>>

\* booking_start_at / booking_end_at of a request (NoTime: the field is absent)
WindowStarts == {NoTime, combineDateAndTime(1, T0900), combineDateAndTime(2, T0800)}
WindowEnds == {NoTime, combineDateAndTime(2, T0800 + 30), combineDateAndTime(2, T0900)}

InitWindow ==
    /\ avails = [a \in AvailIds |-> NoAvail]
    /\ slots = [s \in SlotIds |-> NoSlot]
    /\ appts = <<>>
    /\ now = WindowClock[1]
    /\ last = Started
    /\ req = NoRequests

NextWindow ==
    \/ \E bs \in WindowStarts, be \in WindowEnds :
          ~avails[1].exists /\ NewAvailability("d1", 2, bs, be)
    \/ \E m \in 1 .. MaxCap :
          ~slots[1].exists /\ NewTimeslot("d1", 1, T0900, T0930, m)
    \/ \E bs \in WindowStarts, be \in WindowEnds : UpdateAvailability("d1", 1, bs, be)
    \/ \E p \in Patients : Book(p, "d1", 1, MaxCap)
    \/ Tick(WindowClock)

SpecWindow == InitWindow /\ [][NextWindow]_vars

(***************************************************************************)
(* Admission: doctor d1 consults on day 2, with a slot of one place and a  *)
(* slot of two.  Booking requests name any doctor, any slot id (0 is no    *)
(* slot) and any patient id (p0 is no patient); the doctor may delete a    *)
(* slot and change the capacity of the second; the clock runs past the     *)
(* window's end and the first slot's start.                                *)
(***************************************************************************)
UnknownPatient == "p0"

InitAdmission ==
    /\ avails = [a \in AvailIds |-> IF a = 1 THEN Morning("d1", 2, T1000) ELSE NoAvail]
    /\ slots = [s \in SlotIds |-> CASE s = 1 -> Slot(1, "d1", T0900, T0930, 1)
                                   [] s = 2 -> Slot(1, "d1", T0930, T1000, 2)
                                   [] OTHER -> NoSlot]
    /\ appts = <<>>
    /\ now = Clock[1]
    /\ last = Started
    /\ req = NoRequests

NextAdmission ==
    \/ \E p \in {"p1", "p2", UnknownPatient}, d \in Doctors, s \in 0 .. 2 :
          Book(p, d, s, MaxAdmitAppts)
    \/ \E a \in ApptIds(appts) : Cancel(a, [id |-> appts[a].patient, role |-> PATIENT])
    \/ \E s \in 1 .. 2 : SoftDeleteTimeslot("d1", s)
    \/ \E m \in Capacities : UpdateTimeslot("d1", 2, m)
    \/ Tick(<<Clock[1], Clock[3]>>)

SpecAdmission == InitAdmission /\ [][NextAdmission]_vars

(***************************************************************************)
(* A new end inside a slot: day 2 with the slots 09:00-09:30 and           *)
(* 09:30-10:00 (two places each), day 3 with one slot of two places; the   *)
(* doctor shrinks day 2 to end at 09:15 or at 09:30.                       *)
(***************************************************************************)
InitCut ==
    /\ avails = [a \in AvailIds |-> CASE a = 1 -> Morning("d1", 2, T1000)
                                      [] a = 2 -> Morning("d1", 3, T1000)
                                      [] OTHER -> NoAvail]
    /\ slots = [s \in SlotIds |-> CASE s = 1 -> Slot(1, "d1", T0900, T0930, 2)
                                   [] s = 2 -> Slot(1, "d1", T0930, T1000, 2)
                                   [] s = 3 -> Slot(2, "d1", T0900, T0930, 2)
                                   [] OTHER -> NoSlot]
    /\ appts = <<>>
    /\ now = Clock[1]
    /\ last = Started
    /\ req = NoRequests

NextCut ==
    \/ \E p \in {"p1", "p2", "p3"}, s \in 1 .. 2 : Book(p, "d1", s, MaxCutAppts)
    \/ \E a \in ApptIds(appts) : Cancel(a, [id |-> appts[a].patient, role |-> PATIENT])
    \/ \E ne \in {T0915, T0930} : \E ord \in Perms(ShrinkRows(1)) :
          Shrink(ord, "d1", 1, NoTime, ne)

SpecCut == InitCut /\ [][NextCut]_vars

(***************************************************************************)
(* The reschedule engine: day 2 with the slots 09:00-09:30 and 09:30-10:00 *)
(* (two places each) and day 3 with one slot.  Patients book and cancel;   *)
(* the doctor sends requests to the engine's entry point (moves between    *)
(* the slots, a shrink of day 2, a shift of day 3 by half an hour, and     *)
(* requests with fields missing), and reschedules single appointments.     *)
(***************************************************************************)
Dto(type, a, src, tgt, ns, ne, minutes) ==
    [scheduling_type |-> type, availability_id |-> a, source_slot_id |-> src,
     target_slot_id |-> tgt, appointment_id |-> NoId, new_start_time |-> ns,
     new_end_time |-> ne, shift_minutes |-> minutes, reason |-> FALSE]

MoveRequests == {Dto(SLOT_SLOT, 1, src, tgt, NoTime, NoTime, 0) : src, tgt \in 0 .. 3}

ShrinkRequests == {Dto(SHRINKING, 1, NoId, NoId, NoTime, ne, 0) : ne \in {NoTime, T0915}}

ShiftRequests ==
    {Dto(TIME_SHIFT, 2, NoId, NoId, T0930, ne, m) : ne \in {NoTime, T0930, T1030}, m \in {0, 30}}

OtherRequests == {Dto("other", 1, 1, 2, T0930, T0915, 30)}

\* a shift is sent while day 3 has shifts left
ShiftsLeft == slots[3].start < T0900 + 30 * MaxShifts

InitEngine ==
    /\ avails = [a \in AvailIds |-> CASE a = 1 -> Morning("d1", 2, T1000)
                                      [] a = 2 -> Morning("d1", 3, T1000)
                                      [] OTHER -> NoAvail]
    /\ \E c \in Capacities :
          slots = [s \in SlotIds |-> CASE s = 1 -> Slot(1, "d1", T0900, T0930, 2)
                                       [] s = 2 -> Slot(1, "d1", T0930, T1000, 2)
                                       [] s = 3 -> Slot(2, "d1", T0900, T0930, c)
                                       [] OTHER -> NoSlot]
    /\ appts = <<>>
    /\ now = Clock[1]
    /\ last = Unobserved
    /\ req = NoRequests

NextEngine ==
    \/ \E p \in {"p1", "p2"}, s \in 1 .. 3 : Book(p, "d1", s, MaxEngineAppts)
    \/ \E a \in ApptIds(appts) : Cancel(a, [id |-> appts[a].patient, role |-> PATIENT])
    \/ \E dto \in MoveRequests \cup ShrinkRequests \cup OtherRequests :
          \E ord \in Perms(ApptIds(appts)) : UnifiedReschedule(ord, "d1", dto)
    \/ \E a \in ApptIds(appts), s \in 1 .. 3 : RescheduleToNewSlot("d1", a, s, FALSE)

SpecEngine == InitEngine /\ [][NextEngine]_vars

(***************************************************************************)
(* The engine's entry point: the clinic of the reschedule engine; any      *)
(* doctor sends any request (a move, a shrink of day 2, a shift of day 3,  *)
(* an unknown type; fields present or missing) while patients book.        *)
(***************************************************************************)
EntryRequests == MoveRequests \cup ShrinkRequests \cup ShiftRequests \cup OtherRequests

InitEntry ==
    /\ avails = [a \in AvailIds |-> CASE a = 1 -> Morning("d1", 2, T1000)
                                      [] a = 2 -> Morning("d1", 3, T1000)
                                      [] OTHER -> NoAvail]
    /\ slots = [s \in SlotIds |-> CASE s = 1 -> Slot(1, "d1", T0900, T0930, 2)
                                   [] s = 2 -> Slot(1, "d1", T0930, T1000, 2)
                                   [] s = 3 -> Slot(2, "d1", T0900, T0930, 2)
                                   [] OTHER -> NoSlot]
    /\ appts = <<>>
    /\ now = Clock[1]
    /\ last = Started
    /\ req = NoRequests

NextEntry ==
    \/ \E p \in {"p1", "p2"}, s \in {1, 3} : Book(p, "d1", s, MaxEntryAppts)
    \/ \E dto \in EntryRequests \ ShiftRequests :
          /\ dto.source_slot_id \in {NoId, 1}
          /\ dto.target_slot_id \in {NoId, 2}
          /\ \E ord \in Perms(ApptIds(appts)) : UnifiedReschedule(ord, "d1", dto)
    \/ \E d \in Doctors, dto \in ShiftRequests :
          ShiftsLeft /\ UnifiedReschedule(<<>>, d, dto)

SpecEntry == InitEntry /\ [][NextEntry]_vars

(***************************************************************************)
(* Two doctors: d1 consults on day 2 (two slots) and day 4 (one slot), d2  *)
(* on day 3 (one slot).  Patients book with either doctor, and either      *)
(* doctor sends moves, shrinks and shifts that name any availability and   *)
(* any slots, and reschedules single appointments.                         *)
(***************************************************************************)
OwnerRequests ==
    {Dto(SLOT_SLOT, a, src, tgt, NoTime, NoTime, 0) : a \in 1 .. 2, src \in {1, 3}, tgt \in 2 .. 4}
    \cup {Dto(SHRINKING, a, NoId, NoId, NoTime, T0915, 0) : a \in 1 .. 2}
    \cup {Dto(TIME_SHIFT, a, NoId, NoId, T0930, T1030, 30) : a \in 2 .. 3}

InitOwners ==
    /\ avails = [a \in AvailIds |-> CASE a = 1 -> Morning("d1", 2, T1000)
                                      [] a = 2 -> Morning("d2", 3, T0930)
                                      [] a = 3 -> Morning("d1", 4, T0930)]
    /\ slots = [s \in SlotIds |-> CASE s = 1 -> Slot(1, "d1", T0900, T0930, 2)
                                   [] s = 2 -> Slot(1, "d1", T0930, T1000, 2)
                                   [] s = 3 -> Slot(2, "d2", T0900, T0930, 2)
                                   [] s = 4 -> Slot(3, "d1", T0900, T0930, 2)]
    /\ appts = <<>>
    /\ now = Clock[1]
    /\ last = Unobserved
    /\ req = NoRequests

NextOwners ==
    \/ \E p \in {"p1", "p2"}, d \in Doctors, s \in 1 .. 3 : Book(p, d, s, MaxEngineAppts)
    \/ \E d \in Doctors, dto \in OwnerRequests :
          /\ dto.scheduling_type = TIME_SHIFT => slots[4].start = T0900 /\ slots[3].start = T0900
          /\ \E ord \in Perms(ApptIds(appts)) : UnifiedReschedule(ord, d, dto)
    \/ \E d \in Doctors, a \in ApptIds(appts), s \in 2 .. 3 : RescheduleToNewSlot(d, a, s, FALSE)

SpecOwners == InitOwners /\ [][NextOwners]_vars

(***************************************************************************)
(* The slot status: day 2 with the slots 09:00-09:30 (one place) and       *)
(* 09:30-10:00 (two places).  Patients book and cancel, the doctor changes *)
(* a capacity, moves a slot's appointments, shrinks the day to end at      *)
(* 09:15, and anybody lists the doctor's available slots.                  *)
(***************************************************************************)
InitStatus ==
    /\ avails = [a \in AvailIds |-> IF a = 1 THEN Morning("d1", 2, T1000) ELSE NoAvail]
    /\ slots = [s \in SlotIds |-> CASE s = 1 -> Slot(1, "d1", T0900, T0930, 1)
                                   [] s = 2 -> Slot(1, "d1", T0930, T1000, 2)
                                   [] OTHER -> NoSlot]
    /\ appts = <<>>
    /\ now = Clock[1]
    /\ last = Started
    /\ req = NoRequests

NextStatus ==
    \/ \E p \in {"p1", "p2"}, s \in 1 .. 2 : Book(p, "d1", s, MaxStatusAppts)
    \/ \E a \in ApptIds(appts) : Cancel(a, [id |-> appts[a].patient, role |-> PATIENT])
    \/ \E m \in Capacities : UpdateTimeslot("d1", 2, m)
    \/ \E ord \in Perms(ApptIds(appts)) : MoveSlots(ord, "d1", 1, 2, NoId, FALSE)
    \/ \E ord \in Perms(ApptIds(appts)) : Shrink(ord, "d1", 1, NoTime, T0915)
    \/ \E d \in Doctors : GetAvailableTimeSlots(d)

SpecStatus == InitStatus /\ [][NextStatus]_vars

(***************************************************************************)
(* A move and a cancellation interleaved at their awaits: day 2 with two   *)
(* slots of two places; one or two patients are booked in the first slot;  *)
(* the doctor moves the slot's appointments (all, or one) to the second    *)
(* slot or back while a patient cancels.                                   *)
(***************************************************************************)
Booked(p, s, reporting_time) ==
    [patient |-> p, doctor |-> "d1", slot |-> s, status |-> SCHEDULED,
     scheduled_on |-> combineDateAndTime(2, reporting_time), notes |-> 0]

InitRace ==
    /\ avails = [a \in AvailIds |-> IF a = 1 THEN Morning("d1", 2, T1000) ELSE NoAvail]
    /\ \E n \in 1 .. 2 :
          /\ appts = SubSeq(<<Booked("p1", 1, T0900), Booked("p2", 1, T0915)>>, 1, n)
          /\ slots = [s \in SlotIds |->
                        CASE s = 1 -> [Slot(1, "d1", T0900, T0930, 2) EXCEPT
                                          !.status = IF n = 2 THEN BOOKED ELSE AVAILABLE]
                          [] s = 2 -> Slot(1, "d1", T0930, T1000, 2)
                          [] OTHER -> NoSlot]
    /\ now = Clock[1]
    /\ last = Unobserved
    /\ req = [m |-> IdleMove, c |-> IdleCancel]

NextRace ==
    \/ \E src, tgt \in 1 .. 2, a \in {NoId} \cup ApptIds(appts) :
          src # tgt /\ MoveBegin("d1", src, tgt, a)
    \/ MoveFind
    \/ MoveSave
    \/ MoveStatus
    \/ \E a \in ApptIds(appts) : CancelFind(a, [id |-> appts[a].patient, role |-> PATIENT])
    \/ CancelSave
    \/ CancelStatus

SpecRace == InitRace /\ [][NextRace]_vars

(***************************************************************************)
(* A move and a booking interleaved at their awaits: day 2 with a first    *)
(* slot of two places in which p1 is booked, and a second slot of one or   *)
(* two places; the doctor moves the first slot's appointments to the       *)
(* second while patients book.                                             *)
(***************************************************************************)
InitOverlap ==
    /\ avails = [a \in AvailIds |-> IF a = 1 THEN Morning("d1", 2, T1000) ELSE NoAvail]
    /\ appts = <<Booked("p1", 1, T0900)>>
    /\ \E c \in Capacities :
          slots = [s \in SlotIds |-> CASE s = 1 -> Slot(1, "d1", T0900, T0930, 2)
                                       [] s = 2 -> Slot(1, "d1", T0930, T1000, c)
                                       [] OTHER -> NoSlot]
    /\ now = Clock[1]
    /\ last = Unobserved
    /\ req = [m |-> IdleMove, b1 |-> Idle]

NextOverlap ==
    \/ MoveBegin("d1", 1, 2, NoId)
    \/ MoveFind
    \/ MoveSave
    \/ MoveStatus
    \/ \E p \in {"p2", "p3"}, s \in 1 .. 2 : BookFindSlot("b1", p, "d1", s)
    \/ BookCheckSession("b1")
    \/ BookCount("b1")
    \/ BookSave("b1")
    \/ BookStatusRead("b1")
    \/ BookStatusWrite("b1")

SpecOverlap == InitOverlap /\ [][NextOverlap]_vars

(***************************************************************************)
(* Properties of the requests run one at a time (specification Spec).      *)
(***************************************************************************)
SameSession(s1, s2) ==
    /\ slots[s1].doctor = slots[s2].doctor
    /\ avails[slots[s1].avail].date = avails[slots[s2].avail].date
    /\ avails[slots[s1].avail].session = avails[slots[s2].avail].session

\* the places a slot has left: max_patients less its SCHEDULED appointments
FreePlaces(s) == slots[s].max - CountScheduled(appts, s)

\* C1: after any sequence of operations run one at a time, every slot has at most
\* max_patients appointments in status SCHEDULED.
C1_SlotWithinCapacity ==
    \A s \in SlotIds : slots[s].exists => CountScheduled(appts, s) <= slots[s].max

\* C3: no patient holds two SCHEDULED appointments with the same doctor whose slots'
\* availabilities have the same date and the same session.
C3_OneAppointmentPerSession ==
    \A i, j \in ApptIds(appts) :
        (/\ i # j
         /\ appts[i].patient = appts[j].patient
         /\ appts[i].status = SCHEDULED
         /\ appts[j].status = SCHEDULED)
        => ~SameSession(appts[i].slot, appts[j].slot)

\* C6: a move of N selected SCHEDULED appointments to a target slot with fewer than N
\* free places fails with a ConflictError and changes no appointment and no slot.
C6_FailedMoveMutatesNothing ==
    \A src, tgt \in SlotIds : \A ord \in Perms(ScheduledIn(appts, src)) :
        LET r == moveSlots(avails, slots, appts, ord, "d1", src, tgt, NoId, FALSE) IN
        (/\ validateSlotOwnership(avails, slots, src, "d1")
         /\ validateSlotOwnership(avails, slots, tgt, "d1")
         /\ Len(ord) >= 1
         /\ FreePlaces(tgt) < Len(ord))
        => /\ ErrKind(r.err) = "Conflict"
           /\ r.appts = appts
           /\ r.slots = slots

\* C7: a move of N selected SCHEDULED appointments to a target slot with at least N
\* free places reassigns all N to the target, and a source slot left with no SCHEDULED
\* appointment is AVAILABLE afterwards.
C7_MoveReassignsAll ==
    \A src, tgt \in SlotIds : \A ord \in Perms(ScheduledIn(appts, src)) :
        LET r == moveSlots(avails, slots, appts, ord, "d1", src, tgt, NoId, FALSE) IN
        (/\ validateSlotOwnership(avails, slots, src, "d1")
         /\ validateSlotOwnership(avails, slots, tgt, "d1")
         /\ Len(ord) >= 1
         /\ FreePlaces(tgt) >= Len(ord))
        => /\ r.err = OK
           /\ \A i \in ScheduledIn(appts, src) :
                 r.appts[i].slot = tgt /\ r.appts[i].status = SCHEDULED
           /\ CountScheduled(r.appts, src) = 0 => r.slots[src].status = AVAILABLE

(***************************************************************************)
(* Properties of a shrink (specification SpecShrink).  The places of a     *)
(* tier are counted here from the tables, not from the capacity search.    *)
(***************************************************************************)
\* a slot that takes patients: not deleted, AVAILABLE, with a place left
Open(s) == slots[s].exists /\ ~slots[s].deleted /\ slots[s].status = AVAILABLE
           /\ FreePlaces(s) > 0

\* a slot of availability a that lies inside the new consulting times
Kept(s, a, ns, ne) ==
    /\ slots[s].exists /\ slots[s].avail = a
    /\ ne # NoTime => slots[s].end <= ne
    /\ ns # NoTime => slots[s].start >= ns

\* a slot of availability a that the new consulting times cut off
CutOff(s, a, ns, ne) ==
    /\ slots[s].exists /\ slots[s].avail = a
    /\ \/ ne # NoTime /\ slots[s].start > ne
       \/ ns # NoTime /\ slots[s].end < ns

Displaced(a, ns, ne) ==
    {i \in ApptIds(appts) : appts[i].status = SCHEDULED /\ CutOff(appts[i].slot, a, ns, ne)}

SameDayPlaces(a, ns, ne) ==
    Sum([s \in SlotIds |-> IF Kept(s, a, ns, ne) /\ Open(s) THEN FreePlaces(s) ELSE 0], SlotIds)

PlacesOn(b) ==
    Sum([s \in SlotIds |-> IF slots[s].avail = b /\ Open(s) THEN FreePlaces(s) ELSE 0], SlotIds)

\* the doctor's consulting days after availability a's
LaterDays(a) == {b \in AvailIds : /\ avails[b].exists
                                  /\ avails[b].doctor = avails[a].doctor
                                  /\ avails[b].date > avails[a].date}

NextDays(a) == {b \in LaterDays(a) : \A c \in LaterDays(a) : avails[b].date <= avails[c].date}

NextDayPlaces(a) == IF LaterDays(a) = {} THEN 0 ELSE PlacesOn(CHOOSE b \in NextDays(a) : TRUE)

LaterPlaces(a) == Sum([b \in AvailIds |-> IF b \in LaterDays(a) THEN PlacesOn(b) ELSE 0],
                      AvailIds)

\* a well-formed shrink request of doctor d1 for availability 1
ShrinkRequest(ns, ne) ==
    /\ validateAvailability(avails, 1, "d1")
    /\ validateShrinkingParameters(avails[1], ns, ne)

\* C4: a shrink whose displaced appointments find too few places on the same day, on
\* the next consulting day and on the following days together fails with a
\* ConflictError and leaves every availability, slot and appointment as it was.
C4_FailedShrinkMutatesNothing ==
    \A ns, ne \in ShrinkTimes : \A ord \in Perms(ShrinkRows(1)) :
        LET r == shrinkSchedule(avails, slots, appts, ord, "d1", 1, ns, ne)
            n == Cardinality(Displaced(1, ns, ne))
        IN  (/\ ShrinkRequest(ns, ne)
             /\ n >= 1
             /\ SameDayPlaces(1, ns, ne) < n
             /\ NextDayPlaces(1) < n
             /\ LaterPlaces(1) < n)
            => /\ ErrKind(r.err) = "Conflict"
               /\ r.avails = avails
               /\ r.slots = slots
               /\ r.appts = appts

\* a shrink has just failed for want of places, with three patients in the cut-off slot
C4_ShrinkRefused ==
    /\ last = [op |-> "shrink", err |-> "InsufficientCapacity"]
    /\ CountScheduled(appts, 2) = 3
    /\ ~slots[2].deleted
    /\ avails[1].cend = T1030

\* the consulting day an appointment of the table `ap` is on
DayOf(ap, i) == avails[slots[ap[i].slot].avail].date

FirstLaterDays(a) ==
    {b \in LaterDays(a) :
        Cardinality({c \in LaterDays(a) : avails[c].date < avails[b].date}) < FutureDaysLimit}

FirstLaterPlaces(a) ==
    Sum([b \in AvailIds |-> IF b \in FirstLaterDays(a) THEN PlacesOn(b) ELSE 0], AvailIds)

\* the displaced appointments that the tables `ap` hold on consulting day b
MovedTo(ap, D, b) == {i \in D : slots[ap[i].slot].avail = b}

\* C27: a shrink with displaced appointments places all of them in the first tier whose
\* capacity alone covers them: same-day slots inside the new range; otherwise the
\* doctor's chronologically next availability; otherwise the next future availabilities
\* in date order, at most 7 of them, accumulating capacity until it covers them; it
\* never uses an availability beyond the 7th future one and fails with a ConflictError
\* only when no tier suffices.
C27_PlacedInFirstSufficientTier ==
    \A ns, ne \in ShrinkTimes : \A ord \in Perms(ShrinkRows(1)) :
        LET r == shrinkSchedule(avails, slots, appts, ord, "d1", 1, ns, ne)
            D == Displaced(1, ns, ne)
            n == Cardinality(D)
            sameDay == SameDayPlaces(1, ns, ne) >= n
            nextDay == NextDayPlaces(1) >= n
            manyDays == FirstLaterPlaces(1) >= n
        IN  (ShrinkRequest(ns, ne) /\ n >= 1)
            => /\ ErrKind(r.err) = "Conflict" <=> ~(sameDay \/ nextDay \/ manyDays)
               /\ (sameDay \/ nextDay \/ manyDays) =>
                    /\ r.err = OK
                    /\ \A i \in D : r.appts[i].status = SCHEDULED
                    /\ sameDay => \A i \in D : Kept(r.appts[i].slot, 1, ns, ne)
                    /\ (~sameDay /\ nextDay)
                         => \A i \in D : slots[r.appts[i].slot].avail \in NextDays(1)
                    /\ (~sameDay /\ ~nextDay)
                         => /\ \A i \in D : slots[r.appts[i].slot].avail
                                                \in FirstLaterDays(1)
                            /\ \A b, c \in FirstLaterDays(1) :
                                  (avails[c].date < avails[b].date
                                   /\ MovedTo(r.appts, D, b) # {})
                                  => Cardinality(MovedTo(r.appts, D, c)) = PlacesOn(c)


C32_RejectedWriteLeavesNothingBehind ==
    \A ne \in ShrinkTimes : \A ord \in Perms(ShrinkRows(1)) :
        LET r == shrinkSchedule(avails, slots, appts, ord, "d1", 1, NoTime, ne)
        IN  (ShrinkRequest(NoTime, ne) /\ r.err = "Persistence")
            => r.avails = avails /\ r.slots = slots /\ r.appts = appts

ConsultStartAt(i) ==
    combineDateAndTime(avails[slots[appts[i].slot].avail].date, slots[appts[i].slot].start)

\* the patient of appointment i, or its doctor
MayCancel(u, i) ==
    \/ u.role = PATIENT /\ u.id = appts[i].patient
    \/ u.role = DOCTOR /\ u.id = appts[i].doctor

\* C21: a cancel request from a caller who is neither the appointment's booking patient
\* nor its assigned doctor always fails with a ConflictError and leaves the appointment
\* SCHEDULED and its slot unchanged.
C21_StrangerCannotCancel ==
    \A i \in ApptIds(appts), u \in Users :
        LET r == cancelAppointment(avails, slots, appts, now, i, u.id, u.role) IN
        (u.id # appts[i].patient /\ u.id # appts[i].doctor)
        => /\ ErrKind(r.err) = "Conflict"
           /\ r.appts = appts
           /\ r.slots = slots

\* a patient has just been refused the cancellation of another patient's SCHEDULED
\* appointment, before the consultation's start
C21_StrangerRefused ==
    /\ last = [op |-> "cancel", err |-> "NotYourAppointment"]
    /\ \E i \in ApptIds(appts) : appts[i].status = SCHEDULED /\ now < ConsultStartAt(i)

\* C8: cancelling a SCHEDULED appointment at or after the start instant of its slot
\* fails with a ConflictError and changes nothing; before that instant it succeeds, the
\* slot has exactly one SCHEDULED appointment fewer, nothing else changes, and the
\* slot's status is recomputed from the new count: a BOOKED slot that was exactly full
\* becomes AVAILABLE.
C8_CancelBeforeStartFreesOnePlace ==
    \A i \in ApptIds(appts), u \in Users :
        LET r == cancelAppointment(avails, slots, appts, now, i, u.id, u.role)
            s == appts[i].slot
            left == CountScheduled(appts, s) - 1
        IN  (appts[i].status = SCHEDULED /\ MayCancel(u, i))
            => IF now >= ConsultStartAt(i)
               THEN /\ ErrKind(r.err) = "Conflict"
                    /\ r.appts = appts
                    /\ r.slots = slots
               ELSE /\ r.err = OK
                    /\ r.appts = [appts EXCEPT ![i].status = CANCELLED]
                    /\ CountScheduled(r.appts, s) = left
                    /\ \A x \in SlotIds \ {s} : r.slots[x] = slots[x]
                    /\ r.slots[s] = [slots[s] EXCEPT !.status =
                                        IF left >= slots[s].max THEN BOOKED
                                        ELSE IF @ = BLOCKED THEN BLOCKED ELSE AVAILABLE]
                    /\ (slots[s].status = BOOKED /\ left + 1 = slots[s].max)
                       => r.slots[s].status = AVAILABLE

\* a cancellation has just been refused at the very start of the consultation, after an
\* earlier one freed a place of a full slot
C8_RefusedAtStartAfterOneFreed ==
    /\ last = [op |-> "cancel", err |-> "TooLateToCancel"]
    /\ now = combineDateAndTime(2, T0900)
    /\ \E i \in ApptIds(appts) : appts[i].status = SCHEDULED /\ now = ConsultStartAt(i)
    /\ \E i \in ApptIds(appts) : /\ appts[i].status = CANCELLED
                                  /\ slots[appts[i].slot].status = AVAILABLE
                                  /\ FreePlaces(appts[i].slot) = 1

(***************************************************************************)
(* Properties of the booking window (specification SpecWindow).            *)
(***************************************************************************)
WindowCodes == {"PastSlot", "WindowNotConfigured", "WindowStartNotBeforeEnd",
                "WindowEndNotBeforeSlot", "WindowNotOpen", "WindowClosed"}

\* the instant the consultation of slot s starts
SlotStartAt(s) == combineDateAndTime(avails[slots[s].avail].date, slots[s].start)

\* a slot a booking request finds, and finds AVAILABLE
Bookable(s) == slots[s].exists /\ ~slots[s].deleted /\ slots[s].status = AVAILABLE

\* booking_start < booking_end < the slot's start instant
WindowWellFormed(s) ==
    /\ avails[slots[s].avail].bstart # NoTime
    /\ avails[slots[s].avail].bend # NoTime
    /\ avails[slots[s].avail].bstart < avails[slots[s].avail].bend
    /\ avails[slots[s].avail].bend < SlotStartAt(s)

\* C9: for a slot that is found AVAILABLE, a booking at or after the slot's start
\* instant fails as a past slot; before it, a window that is not well formed (start not
\* before end, or end not before the slot's start instant) fails every booking with the
\* configuration error; with a well-formed window a booking before booking_start fails
\* with the not-yet-open error, one after booking_end with the window-closed error, and
\* one at booking_start, at booking_end or between them passes the window check.  Every
\* one of these failures is a ConflictError that changes nothing.
C9_WindowErrorsInOrder ==
    \A s \in SlotIds, p \in Patients :
        LET a == avails[slots[s].avail]
            r == newAppointment(avails, slots, appts, now, p, slots[s].doctor, s)
        IN  Bookable(s)
            => /\ r.err \in WindowCodes
                  => ErrKind(r.err) = "Conflict" /\ r.slots = slots /\ r.appts = appts
               /\ IF now >= SlotStartAt(s) THEN r.err = "PastSlot"
                  ELSE IF a.bstart = NoTime \/ a.bend = NoTime
                       THEN r.err = "WindowNotConfigured"
                  ELSE IF a.bstart >= a.bend THEN r.err = "WindowStartNotBeforeEnd"
                  ELSE IF a.bend >= SlotStartAt(s) THEN r.err = "WindowEndNotBeforeSlot"
                  ELSE /\ now < a.bstart => r.err = "WindowNotOpen"
                       /\ now > a.bend => r.err = "WindowClosed"
                       /\ (a.bstart <= now /\ now <= a.bend)
                          => /\ r.err \notin WindowCodes
                             /\ validateBookingWindow(a, slots[s], now) = OK

\* a booking has just been accepted at the very instant the window ends
C9_BookedAtWindowEnd ==
    /\ last = [op |-> "book", err |-> OK]
    /\ now = avails[1].bend
    /\ WindowWellFormed(1)
    /\ CountScheduled(appts, 1) >= 1

\* C9 as stated: a booking before booking_start always fails with the not-yet-open
\* error, one after booking_end always fails with the window-closed error, and one
\* exactly at booking_start or at booking_end passes the window check.
C9_OutsideWindowGetsWindowError ==
    \A s \in SlotIds, p \in Patients :
        LET a == avails[slots[s].avail]
            r == newAppointment(avails, slots, appts, now, p, slots[s].doctor, s)
        IN  (Bookable(s) /\ a.bstart # NoTime /\ a.bend # NoTime)
            => /\ now < a.bstart => r.err = "WindowNotOpen"
               /\ now > a.bend => r.err = "WindowClosed"
               /\ (now = a.bstart \/ now = a.bend)
                  => validateBookingWindow(a, slots[s], now) = OK

\* a patient with no appointment row
NewPatient(p) == \A i \in ApptIds(appts) : appts[i].patient # p

\* C10: for a slot of capacity k whose booking window is well formed (it ends before
\* the slot starts) and open, bookings by patients without an appointment succeed
\* while fewer than k are SCHEDULED, the slot's status becomes BOOKED with the k-th,
\* and the next booking fails with a ConflictError (the slot is no longer available)
\* and changes nothing: exactly k bookings succeed.
C10_ExactlyCapacityBookingsSucceed ==
    \A s \in SlotIds, p \in Patients :
        LET a == avails[slots[s].avail]
            n == CountScheduled(appts, s)
            r == newAppointment(avails, slots, appts, now, p, slots[s].doctor, s)
        IN  (/\ slots[s].exists /\ ~slots[s].deleted
             /\ WindowWellFormed(s)
             /\ a.bstart <= now /\ now <= a.bend
             /\ NewPatient(p))
            => /\ n <= slots[s].max
               /\ slots[s].status = IF n = slots[s].max THEN BOOKED ELSE AVAILABLE
               /\ IF n < slots[s].max
                  THEN /\ r.err = OK
                       /\ Len(r.appts) = Len(appts) + 1
                       /\ SubSeq(r.appts, 1, Len(appts)) = appts
                       /\ r.appts[Len(r.appts)].patient = p
                       /\ r.appts[Len(r.appts)].slot = s
                       /\ r.appts[Len(r.appts)].status = SCHEDULED
                       /\ r.slots[s].status = IF n + 1 = slots[s].max THEN BOOKED
                                              ELSE AVAILABLE
                  ELSE /\ r.err = "SlotNotAvailable"
                       /\ ErrKind(r.err) = "Conflict"
                       /\ r.appts = appts
                       /\ r.slots = slots

\* a third patient has just been turned away from the slot of capacity 2, BOOKED by two
C10_ThirdBookingRefused ==
    /\ last = [op |-> "book", err |-> "SlotNotAvailable"]
    /\ slots[1].max = 2
    /\ slots[1].status = BOOKED
    /\ CountScheduled(appts, 1) = 2
    /\ WindowWellFormed(1)
    /\ avails[1].bstart <= now /\ now <= avails[1].bend

\* C10 as stated: with consulting 09:00-10:00, one slot 09:00-09:30 of capacity 2 and
\* a booking window that runs from now to 09:00, the first two bookings by distinct
\* patients succeed, the slot is BOOKED after the second, and a third fails with a
\* ConflictError.
C10_WindowUntilSlotStart ==
    \A p \in Patients :
        LET n == CountScheduled(appts, 1)
            r == newAppointment(avails, slots, appts, now, p, "d1", 1)
        IN  (/\ slots[1].exists /\ slots[1].max = 2
             /\ slots[1].start = T0900 /\ slots[1].end = T0930
             /\ avails[1].cstart = T0900 /\ avails[1].cend = T1000
             /\ avails[1].bend = combineDateAndTime(avails[1].date, T0900)
             /\ avails[1].bstart <= now /\ now < avails[1].bend
             /\ NewPatient(p))
            => IF n < 2 THEN r.err = OK /\ (n = 1 => r.slots[1].status = BOOKED)
               ELSE ErrKind(r.err) = "Conflict"

(***************************************************************************)
(* Properties of a new end inside a slot (specification SpecCut).          *)
(***************************************************************************)
\* the slots of availability a with the given consulting times
SlotAt(a, start, end) ==
    {s \in SlotIds : /\ slots[s].exists /\ ~slots[s].deleted /\ slots[s].avail = a
                     /\ slots[s].start = start /\ slots[s].end = end}

\* the scenario: slot s1 09:00-09:30 holds 2 SCHEDULED appointments and slot s2
\* 09:30-10:00 of the same day has 2 free places
TwoBookedTwoFree(a, s1, s2) ==
    /\ avails[a].exists
    /\ s1 \in SlotAt(a, T0900, T0930)
    /\ s2 \in SlotAt(a, T0930, T1000)
    /\ CountScheduled(appts, s1) = 2
    /\ slots[s2].status = AVAILABLE
    /\ FreePlaces(s2) = 2

C35_SlotsInsideConsultingWindow ==
    \A s \in SlotIds :
        (slots[s].exists /\ ~slots[s].deleted)
        => /\ avails[slots[s].avail].cstart <= slots[s].start
           /\ slots[s].end <= avails[slots[s].avail].cend

\* C26: the appointments displaced by a shrink are processed in ascending order of the
\* instant at which each was originally booked, with no appointment appearing twice,
\* whatever slots they were booked in and whatever cancellations and re-bookings
\* happened before.  (Rows are numbered in the order in which they were booked.)
C26_DisplacedInBookingOrder ==
    \A ord \in Perms(ApptIds(appts)) :
      \A new_start_time \in {NoTime, T1030}, new_end_time \in {NoTime, T0800, T0915} :
        LET affected == getAffectedAppointments(slots, appts, ord, 1, new_start_time,
                                                new_end_time)
        IN  \A j, k \in 1 .. Len(affected) : j < k => affected[j] < affected[k]

(***************************************************************************)
(* Properties of the reschedule engine (specification SpecEngine).         *)
(***************************************************************************)
\* C12: after every committed operation that changes a slot's SCHEDULED count (booking,
\* cancellation, slot-to-slot move, single-appointment reschedule to a new slot, shrink
\* reassignment), every slot that is not BLOCKED is BOOKED exactly when its SCHEDULED
\* count is at least max_patients, and AVAILABLE otherwise.
C12_StatusFollowsCount ==
    \A s \in SlotIds :
        (slots[s].exists /\ slots[s].status # BLOCKED)
        => slots[s].status = (IF CountScheduled(appts, s) >= slots[s].max THEN BOOKED
                              ELSE AVAILABLE)

\* C13: a slot becomes BLOCKED only through explicit deactivation, and once BLOCKED no
\* booking, cancellation, move, single-appointment reschedule or status recompute
\* changes its status to AVAILABLE or BOOKED.
C13_BlockedStaysBlocked ==
    [][\A s \in SlotIds :
          /\ slots[s].status = BLOCKED => slots'[s].status = BLOCKED
          /\ (slots[s].status # BLOCKED /\ slots'[s].status = BLOCKED) => slots'[s].deleted
      ]_vars

(***************************************************************************)
(* Properties of the declared booking window (specification SpecWindow).   *)
(***************************************************************************)
\* the availability was created without booking_end_at: it holds the far-future end
DefaultEnd(a) == avails[a].exists /\ avails[a].bend = FarFuture

\* C15: an availability created without booking_end_at gets a booking window that
\* stays open until the slot starts: a booking made at any instant from its booking
\* start up to (but before) the slot's consulting-start instant passes booking-window
\* validation.
C15_DefaultWindowOpenUntilSlotStart ==
    \A s \in SlotIds :
        (/\ slots[s].exists
         /\ DefaultEnd(slots[s].avail)
         /\ avails[slots[s].avail].bstart <= now
         /\ now < SlotStartAt(s))
        => validateBookingWindow(avails[slots[s].avail], slots[s], now) = OK

\* C16: for every availability, after any sequence of create, update, time shift and
\* shrink operations: booking-open < booking-close < consulting-start instant, and
\* consulting-start < consulting-end.
C16_AvailabilityWellFormed ==
    \A a \in AvailIds :
        avails[a].exists
        => /\ avails[a].bstart < avails[a].bend
           /\ avails[a].bend < combineDateAndTime(avails[a].date, avails[a].cstart)
           /\ avails[a].cstart < avails[a].cend

(***************************************************************************)
(* Properties of the admission checks (specification SpecAdmission).       *)
(***************************************************************************)
\* the slot id names a slot that is not deleted
Found(s) == s \in SlotIds /\ slots[s].exists /\ ~slots[s].deleted

\* the booking window of the slot's day is well formed and the clock is inside it
\* and before the slot's start
WindowOpen(s) ==
    /\ now < SlotStartAt(s)
    /\ WindowWellFormed(s)
    /\ avails[slots[s].avail].bstart <= now
    /\ now <= avails[slots[s].avail].bend

\* the patient holds a SCHEDULED appointment with the slot's doctor in the slot's session
BookedInSession(p, s) ==
    \E i \in ApptIds(appts) :
        appts[i].patient = p /\ appts[i].status = SCHEDULED /\ SameSession(appts[i].slot, s)

BookingInputs == [p : {"p1", "p2", UnknownPatient}, d : Doctors, s : 0 .. 4]

\* C14: when a booking request violates several admission checks at once, the error
\* returned is that of the first violated check in this order: slot exists and is
\* non-deleted (NotFound), slot status is AVAILABLE (Conflict), booking window
\* (Conflict), slot belongs to the requested doctor (Validation), patient exists
\* (NotFound), no duplicate same-session booking (Conflict), capacity not reached
\* (Conflict); in every failing case no appointment is created and no slot changes.
C14_FirstViolatedCheckIsReported ==
    \A b \in BookingInputs :
        LET r == newAppointment(avails, slots, appts, now, b.p, b.d, b.s) IN
        /\ IF ~Found(b.s) THEN r.err = "SlotNotFound" /\ ErrKind(r.err) = "NotFound"
           ELSE IF slots[b.s].status # AVAILABLE
           THEN r.err = "SlotNotAvailable" /\ ErrKind(r.err) = "Conflict"
           ELSE IF ~WindowOpen(b.s) THEN r.err \in WindowCodes /\ ErrKind(r.err) = "Conflict"
           ELSE IF slots[b.s].doctor # b.d
           THEN r.err = "WrongDoctor" /\ ErrKind(r.err) = "Validation"
           ELSE IF b.p \notin Patients
           THEN r.err = "PatientNotFound" /\ ErrKind(r.err) = "NotFound"
           ELSE IF BookedInSession(b.p, b.s)
           THEN r.err = "DuplicateSession" /\ ErrKind(r.err) = "Conflict"
           ELSE IF FreePlaces(b.s) <= 0
           THEN r.err = "SlotFull" /\ ErrKind(r.err) = "Conflict"
           ELSE TRUE
        /\ r.err # OK => r.appts = appts /\ r.slots = slots

\* a booking has been refused by the status check on a slot that is also full, with the
\* booking window closed as well: three checks violated, the first one reported
C14_RefusedByStatusWhileFullAndClosed ==
    /\ last = [op |-> "book", err |-> "SlotNotAvailable"]
    /\ \E s \in SlotIds : Found(s) /\ slots[s].status # AVAILABLE
    /\ \A s \in SlotIds :
          (Found(s) /\ slots[s].status # AVAILABLE)
          => FreePlaces(s) <= 0 /\ ~WindowOpen(s)

\* C18: in every operation an unexpected persistence failure reaches the caller as
\* InternalError, while a NotFound, Validation or Conflict error raised by a domain
\* check reaches the caller unchanged (here: the booking operation).
C18_FailureReachesCallerAsInternal ==
    \A b \in BookingInputs, fault \in FaultPoints :
        LET chk == admissionCheck(avails, slots, appts, now, b.p, b.d, b.s)
            r == newAppointmentWithFault(avails, slots, appts, now, b.p, b.d, b.s, fault)
        IN  /\ chk # OK
               => r.err = chk /\ ErrKind(r.err) \in {"NotFound", "Validation", "Conflict"}
            /\ (chk = OK /\ fault # "none") => ErrKind(r.err) = "Internal"

(***************************************************************************)
(* Properties of the engine's entry point (specification SpecEntry).       *)
(***************************************************************************)
\* the tag is unknown, or a field the tag requires is missing
FieldMissing(dto) ==
    CASE dto.scheduling_type = SLOT_SLOT ->
           dto.source_slot_id = NoId \/ dto.target_slot_id = NoId
      [] dto.scheduling_type = TIME_SHIFT ->
           dto.new_start_time = NoTime \/ dto.new_end_time = NoTime \/ dto.shift_minutes = 0
      [] dto.scheduling_type = SHRINKING ->
           dto.new_start_time = NoTime /\ dto.new_end_time = NoTime
      [] OTHER -> TRUE

\* the availability of the request exists and is the doctor's
Owned(d, dto) ==
    /\ dto.availability_id \in AvailIds
    /\ avails[dto.availability_id].exists
    /\ avails[dto.availability_id].doctor = d

\* the one operation the tag names, applied to the request's fields
Chosen(ord, d, dto) ==
    CASE dto.scheduling_type = SLOT_SLOT ->
           moveSlots(avails, slots, appts, ord, d, dto.source_slot_id, dto.target_slot_id,
                     dto.appointment_id, dto.reason) @@ [avails |-> avails]
      [] dto.scheduling_type = TIME_SHIFT ->
           shiftTime(avails, slots, appts, d, dto.availability_id, dto.new_start_time,
                     dto.new_end_time, dto.shift_minutes)
      [] dto.scheduling_type = SHRINKING ->
           shrinkSchedule(avails, slots, appts, ord, d, dto.availability_id,
                          dto.new_start_time, dto.new_end_time)

\* a shift request with both times given and shift_minutes missing or zero
OnlyMinutesMissing(dto) ==
    /\ dto.scheduling_type = TIME_SHIFT
    /\ dto.new_start_time # NoTime
    /\ dto.new_end_time # NoTime
    /\ dto.shift_minutes = 0

ShiftMinutes == {-600, -30, 30, 885}

\* C24: shiftTime changes only the availability's consulting start/end and the
\* start/end times of its non-deleted slots: every appointment's slot reference, status
\* and scheduled_on, and every slot's max_patients, status and deleted flag, are
\* unchanged.
C24_ShiftTouchesTimesOnly ==
    \A d \in Doctors, a \in {x \in AvailIds : avails[x].exists} :
      \A ns, ne \in {T0930, T1030}, m \in ShiftMinutes \cup {0} :
        LET r == shiftTime(avails, slots, appts, d, a, ns, ne, m) IN
        /\ r.appts = appts
        /\ \A x \in AvailIds :
              r.avails[x] = IF x = a /\ r.err = OK
                            THEN [avails[x] EXCEPT !.cstart = ns, !.cend = ne]
                            ELSE avails[x]
        /\ \A s \in SlotIds :
              IF r.err = OK /\ slots[s].exists /\ slots[s].avail = a /\ ~slots[s].deleted
              THEN r.slots[s] = [slots[s] EXCEPT !.start = r.slots[s].start,
                                                 !.end = r.slots[s].end]
              ELSE r.slots[s] = slots[s]

\* day 3 has just been shifted by 30 minutes while a patient holds an appointment in
\* its slot, whose scheduled_on is still an instant of the old slot
C24_ShiftedUnderAnAppointment ==
    /\ last = [op |-> "reschedule", err |-> OK]
    /\ slots[3].start = T0930
    /\ avails[2].cstart = T0930
    /\ \E i \in ApptIds(appts) : /\ appts[i].slot = 3
                                  /\ appts[i].status = SCHEDULED
                                  /\ appts[i].scheduled_on = combineDateAndTime(3, T0900)

\* C25: after a successful time shift by m minutes (m non-zero, positive or negative),
\* every non-deleted slot's start and end are each exactly m minutes from their previous
\* values without wrapping, so each slot keeps its duration and still has start < end,
\* including when a shifted time passes midnight.
C25_ShiftByExactlyMMinutes ==
    \A a \in {x \in AvailIds : avails[x].exists}, m \in ShiftMinutes :
        LET r == shiftTime(avails, slots, appts, avails[a].doctor, a, T0930, T1030, m) IN
        r.err = OK
        => \A s \in shiftedSlots(slots, a) :
             /\ r.slots[s].start = slots[s].start + m
             /\ r.slots[s].end = slots[s].end + m
             /\ r.slots[s].end - r.slots[s].start = slots[s].end - slots[s].start
             /\ slots[s].start < slots[s].end => r.slots[s].start < r.slots[s].end

(***************************************************************************)
(* Properties of the slot status (specification SpecStatus).               *)
(***************************************************************************)
\* the status the rule gives to (current status, SCHEDULED count, max_patients)
RuleStatus(status, count, max_patients) ==
    IF count >= max_patients THEN BOOKED
    ELSE IF status = BLOCKED THEN BLOCKED
    ELSE AVAILABLE

\* C37: a move that succeeds has a target slot that is neither soft-deleted nor
\* BLOCKED and whose availability is not soft-deleted.
C37_MoveTargetIsLive ==
    \A src, tgt \in 1 .. 2 : \A ord \in Perms(ApptIds(appts)) :
        moveSlots(avails, slots, appts, ord, "d1", src, tgt, NoId, FALSE).err = OK
        => /\ ~slots[tgt].deleted
           /\ slots[tgt].status # BLOCKED
           /\ ~avails[slots[tgt].avail].deleted

\* C22: the slot-status recompute used after booking/cancel, the one used by the
\* reschedule engine and the one run by the available-slot listing return the same
\* status for every (current status, SCHEDULED count, max_patients): BOOKED if
\* count >= max_patients, otherwise BLOCKED if the current status is BLOCKED, otherwise
\* AVAILABLE; and they write the slot only when the status changes.
C22_ThreeRecomputesAgree ==
    \A s \in {x \in SlotIds : slots[x].exists} :
      \A status \in {AVAILABLE, BOOKED, BLOCKED}, max_patients \in 1 .. MaxCap + 1 :
        LET sl == [slots EXCEPT ![s].status = status, ![s].max = max_patients,
                                ![s].deleted = FALSE]
            new == RuleStatus(status, CountScheduled(appts, s), max_patients)
            expected == [sl EXCEPT ![s].status = new]
            listing == getAvailableTimeSlots(sl, appts, sl[s].doctor)
        IN  /\ updateSlotStatusAfterBooking(sl, appts, s) = expected
            /\ updateSlotStatus(sl, appts, s) = expected
            /\ listing.slots[s] = expected[s]
            /\ s \in listing.saved <=> status # new
            /\ \A x \in SlotIds \ listing.saved : listing.slots[x] = sl[x]

\* a move has just filled a deactivated (BLOCKED) slot, which the engine's recompute
\* turned BOOKED, while the other slot is AVAILABLE and empty
C22_BlockedSlotFilledByMove ==
    /\ last = [op |-> "move", err |-> OK]
    /\ slots[2].deleted
    /\ slots[2].status = BOOKED
    /\ CountScheduled(appts, 2) = slots[2].max
    /\ slots[1].status = AVAILABLE
    /\ CountScheduled(appts, 1) = 0

(***************************************************************************)
(* Properties of a move interleaved with a cancellation (specification     *)
(* SpecRace).                                                              *)
(***************************************************************************)
\* no request is in flight
Quiet == req.m.pc \in {"idle", "done"} /\ req.c.pc \in {"idle", "done"}

\* C17: when a cancellation and a reschedule (move) of the same appointment run
\* concurrently, the cancellation is never silently overwritten: once cancel has
\* reported success, the appointment is CANCELLED in the final state and does not
\* count against any slot's capacity.
C17_CancelIsNotOverwritten ==
    (Quiet /\ req.c.pc = "done" /\ req.c.err = OK)
    => /\ appts[req.c.id].status = CANCELLED
       /\ \A s \in SlotIds : req.c.id \notin ScheduledIn(appts, s)

\* the slot with its status recomputed from the SCHEDULED appointments it holds
Recomputed(s) ==
    [slots[s] EXCEPT !.status = IF CountScheduled(appts, s) >= slots[s].max THEN BOOKED
                                ELSE IF @ = BLOCKED THEN BLOCKED ELSE AVAILABLE]

C33_MoveTouchesSlotAndNotesOnly ==
    [][req.m' # req.m
       => /\ Len(appts') = Len(appts)
          /\ \A i \in ApptIds(appts) :
                /\ appts'[i].patient = appts[i].patient
                /\ appts'[i].doctor = appts[i].doctor
                /\ appts'[i].status = appts[i].status
                /\ appts'[i].scheduled_on = appts[i].scheduled_on
                /\ appts'[i] # appts[i] => i = req.m.id]_vars

\* C20: a successful booking creates an appointment in status SCHEDULED, a successful
\* cancel by the booking patient changes that appointment to CANCELLED, and an
\* appointment that is CANCELLED or COMPLETED never becomes SCHEDULED again under any
\* operation (a further cancel on it fails with a ConflictError).
C20_CancelledNeverScheduledAgain ==
    [][/\ \A p \in Patients, s \in SlotIds :
             LET r == newAppointment(avails, slots, appts, now, p, "d1", s) IN
             r.err = OK => /\ Len(r.appts) = Len(appts) + 1
                           /\ r.appts[Len(r.appts)].status = SCHEDULED
                           /\ r.appts[Len(r.appts)].patient = p
       /\ \A i \in ApptIds(appts) :
             LET r == cancelAppointment(avails, slots, appts, now, i, appts[i].patient,
                                        PATIENT) IN
             /\ r.err = OK => r.appts[i].status = CANCELLED
             /\ appts[i].status \in {CANCELLED, COMPLETED}
                  => ErrKind(r.err) = "Conflict" /\ r.appts = appts
       /\ \A i \in ApptIds(appts) :
             appts[i].status \in {CANCELLED, COMPLETED}
             => i \in ApptIds(appts') /\ appts'[i].status # SCHEDULED]_vars

(***************************************************************************)
(* Properties of interleaved booking requests (specification SpecBooking). *)
(***************************************************************************)
\* a request that has saved its appointment after it counted exactly one free place
TookLastPlace(b) ==
    /\ req[b].pc \in {"statusRead", "statusWrite"}
    /\ req[b].count = req[b].timeslot.max - 1

\* C2: when two booking requests for a slot with exactly one free place interleave, at
\* most one of them commits a SCHEDULED appointment, so the slot never holds more than
\* max_patients SCHEDULED appointments.
C2_OneOfTwoConcurrentBookingsCommits ==
    \A b \in Bookers :
        TookLastPlace(b)
        => CountScheduled(appts, req[b].timeslot_id) <= slots[req[b].timeslot_id].max

(***************************************************************************)
(* Properties of the allocation pass of a shrink (specification            *)
(* SpecSessions).                                                          *)
(***************************************************************************)
\* the slot a plan gives to appointment i
TargetOf(actions, i) ==
    actions[CHOOSE k \in DOMAIN actions : actions[k].appointment_id = i].new_timeslot_id

\* slot s lies later than slot t: on a later day, or on the same day at a later start
LaterSlot(s, t) ==
    \/ avails[slots[s].avail].date > avails[slots[t].avail].date
    \/ /\ avails[slots[s].avail].date = avails[slots[t].avail].date
       /\ slots[s].start > slots[t].start

\* C28: in the plan of a shrink no slot is given more appointments than the free
\* places the search found in it, every displaced appointment is given exactly one
\* slot, and an appointment earlier in the processing order is never given a later
\* slot (by day, then start time) than an appointment after it.
C28_AllocationKeepsCapacityAndOrder ==
    \A ne \in ShrinkTimes : \A ord \in Perms(ShrinkRows(1)) :
        LET affected == getAffectedAppointments(slots, appts, ord, 1, NoTime, ne)
            plan == generateRescheduleStrategy(avails, slots, appts, "d1", 1, NoTime, ne,
                                               affected)
            actions == plan.reschedule_actions
        IN  (ShrinkRequest(NoTime, ne) /\ Len(affected) >= 1 /\ plan.success)
            => /\ \A s \in SlotIds :
                    Cardinality({k \in DOMAIN actions : actions[k].new_timeslot_id = s})
                        <= (IF Open(s) THEN FreePlaces(s) ELSE 0)
               /\ \A i \in Range(affected) :
                    Cardinality({k \in DOMAIN actions : actions[k].appointment_id = i}) = 1
               /\ \A k, l \in DOMAIN affected :
                    k < l => ~LaterSlot(TargetOf(actions, affected[k]),
                                        TargetOf(actions, affected[l]))

(***************************************************************************)
(* Properties of the reporting time (specification SpecReporting).         *)
(***************************************************************************)
\* C30: a booking that is admitted gets the reporting time slot start + k *
\* floor(slot minutes / max_patients), k the SCHEDULED appointments already in the
\* slot, and for a slot with start < end that time is in [slot start, slot end).
C30_ReportingTimeStaggeredInsideSlot ==
    \A p \in Patients : \A s \in SlotIds :
        LET r == newAppointment(avails, slots, appts, now, p, "d1", s)
            k == CountScheduled(appts, s)
            reporting_time == slots[s].start
                              + k * ((slots[s].end - slots[s].start) \div slots[s].max)
        IN  (slots[s].exists /\ r.err = OK)
            => /\ Len(r.appts) = Len(appts) + 1
               /\ r.appts[Len(r.appts)].scheduled_on
                     = combineDateAndTime(avails[slots[s].avail].date, reporting_time)
               /\ slots[s].start < slots[s].end
                    => slots[s].start <= reporting_time /\ reporting_time < slots[s].end

\* C38: in a slot of at least max_patients minutes no two SCHEDULED appointments have
\* the same reporting time (scheduled_on).
C38_ReportingTimesDistinct ==
    \A s \in SlotIds :
        (slots[s].exists /\ slots[s].end - slots[s].start >= slots[s].max)
        => \A i, j \in ScheduledIn(appts, s) :
             i # j => appts[i].scheduled_on # appts[j].scheduled_on

\* C39: a patient whose appointment in a slot has been cancelled and whom every
\* admission check lets through (slot AVAILABLE, window open, no other appointment in
\* the session, a place free) books the slot again: the booking succeeds with a new
\* SCHEDULED appointment.
C39_RebookAfterCancelSucceeds ==
    \A p \in Patients : \A s \in SlotIds :
        LET r == newAppointment(avails, slots, appts, now, p, "d1", s)
        IN  (/\ \E i \in ApptIds(appts) :
                   appts[i].patient = p /\ appts[i].slot = s /\ appts[i].status = CANCELLED
             /\ admissionCheck(avails, slots, appts, now, p, "d1", s) = OK)
            => /\ r.err = OK
               /\ Len(r.appts) = Len(appts) + 1
               /\ r.appts[Len(r.appts)].patient = p
               /\ r.appts[Len(r.appts)].slot = s
               /\ r.appts[Len(r.appts)].status = SCHEDULED

\* the third patient of a 45-minute slot for four has been booked for 09:37: two
\* steps of floor(45 / 4) = 11 minutes after 09:15
C30_ThirdOfFourReportsAt0937 ==
    /\ last.op = "book" /\ last.err = OK
    /\ slots[1].start = T0915 /\ slots[1].end = T1000 /\ slots[1].max = 4
    /\ Len(appts) = 3
    /\ appts[3].status = SCHEDULED
    /\ appts[3].scheduled_on = combineDateAndTime(2, T0915 + 22)

(***************************************************************************)
(* Properties of a move interleaved with a booking (specification          *)
(* SpecOverlap).                                                           *)
(***************************************************************************)
\* C31: when a move that reassigns appointments into a slot runs concurrently with a
\* booking into that slot, then once both requests have ended the slot holds at most
\* max_patients SCHEDULED appointments.
C31_MoveAndBookingKeepCapacity ==
    (req.m.pc \in {"idle", "done"} /\ req.b1.pc = "idle")
    => \A s \in 1 .. 2 : CountScheduled(appts, s) <= slots[s].max

(***************************************************************************)
(* Properties of ownership (specification SpecOwners).                     *)
(***************************************************************************)
OwnsAvailability(d, a) == a \in AvailIds /\ avails[a].exists /\ avails[a].doctor = d

OwnsSlot(d, s) == s \in SlotIds /\ slots[s].exists /\ avails[slots[s].avail].doctor = d

\* C36: the doctor of every appointment is the doctor of the slot the appointment
\* references, who is the doctor of that slot's availability.
C36_AppointmentDoctorOwnsSlot ==
    \A i \in ApptIds(appts) :
        /\ appts[i].doctor = slots[appts[i].slot].doctor
        /\ appts[i].doctor = avails[slots[appts[i].slot].avail].doctor

\* an appointment of d1 has been taken to the slot of day 4, which no patient can book
\* here, while d2 has an appointment too
C36_MovedAmongTwoDoctors ==
    /\ \E i \in ApptIds(appts) : appts[i].slot = 4 /\ appts[i].status = SCHEDULED
    /\ \E i \in ApptIds(appts) : appts[i].doctor = "d2"

\* C34: a move, shift or shrink sent by a doctor never changes an availability, a
\* slot or an appointment of another doctor, and when the availability or a slot the
\* request names is not the caller's the request fails with NotFound and changes
\* nothing.
C34_OnlyOwnRowsAndForeignIsNotFound ==
    \A d \in Doctors, dto \in OwnerRequests : \A ord \in Perms(ApptIds(appts)) :
        LET r == unifiedReschedule(avails, slots, appts, ord, d, dto)
        IN  /\ \A a \in AvailIds : avails[a].doctor # d => r.avails[a] = avails[a]
            /\ \A s \in SlotIds : slots[s].doctor # d => r.slots[s] = slots[s]
            /\ Len(r.appts) = Len(appts)
            /\ \A i \in ApptIds(appts) : appts[i].doctor # d => r.appts[i] = appts[i]
            /\ (\/ ~OwnsAvailability(d, dto.availability_id)
                \/ /\ dto.scheduling_type = SLOT_SLOT
                   /\ ~(OwnsSlot(d, dto.source_slot_id) /\ OwnsSlot(d, dto.target_slot_id)))
               => /\ ErrKind(r.err) = "NotFound"
                  /\ r.avails = avails /\ r.slots = slots /\ r.appts = appts

====
